---- MODULE Spec2Model ----
(***************************************************************************)
(* cdk-diff-action: classification of a stack's template diff              *)
(* (StackDiff.evaluateDiff), rendering of the per-stack comment            *)
(* (AssemblyProcessor.formatStackComment), aggregation of destructive      *)
(* changes per stage (AssemblyProcessor.processStages) and the action's    *)
(* pass/fail decision (run).                                               *)
(*                                                                         *)
(* Two specifications share the definitions:                               *)
(*   SpecDiff  one diffStack call: the forEachDifference callback of       *)
(*             evaluateDiff applied to one resource difference per step,   *)
(*             every difference drawn from the full bounded domain, then   *)
(*             formatStackComment;                                         *)
(*   Spec      one run of the action over a stage/stack topology.          *)
(***************************************************************************)
EXTENDS Integers, Sequences, FiniteSets, TLC

VARIABLES
    allowedDestroyTypes, \* options.allowedDestroyTypes
    phase,               \* SpecDiff: position inside diffStack
    otherCount,          \* SpecDiff: differences of the diff outside Resources
    index,               \* SpecDiff: resource differences visited so far
    change,              \* SpecDiff: the difference the callback last handled
    before,              \* SpecDiff: `changes` when that callback was entered
    changes,             \* SpecDiff: evaluateDiff's accumulator
    unskipped,           \* SpecDiff: differences the callback did not skip
                         \*           (history)
    unitComment,         \* SpecDiff: formatStackComment's output
    failOnDestructiveChanges,   \* inputs.failOnDestructiveChanges
    noFailOnDestructiveChanges, \* inputs.noFailOnDestructiveChanges
    title,               \* options.title
    assembly,            \* the cloud assembly in cdk.out
    templateDiffs,       \* AssemblyProcessor._templateDiffs
    stageInfo,           \* AssemblyProcessor._stageInfo
    stageComments,       \* AssemblyProcessor.stageComments
    pc,                  \* where run() stands
    unit,                \* index of the next stack to diff or to comment
    stage,               \* commentStages: index of the stage being commented
    previous,            \* commentStage: what findPrevious returned
    stackTasks,          \* commentStacks: the commentStack promises
    store,               \* the pull request's comments
    nextId,              \* the id the store gives its next comment
    error,               \* what run() rejected with
    calls,               \* the calls the store has answered, in order
    runs,                \* how many times run() has been started
    lastRun,             \* the diffs and the outcome of the run before this one
    diffCalls            \* how often this run has called toolkit.diff

diffVars == <<phase, otherCount, index, change, before, changes, unskipped,
              unitComment>>

runVars == <<failOnDestructiveChanges, noFailOnDestructiveChanges, title,
             assembly, templateDiffs, stageInfo, stageComments, pc, unit, stage,
             previous, stackTasks, store, nextId, error>>

logVars == <<calls, runs, lastRun, diffCalls>>

vars == <<allowedDestroyTypes, diffVars, runVars, logVars>>

-----------------------------------------------------------------------------
(* Bounds *)

\* resource differences of one diff in SpecDiff
MaxDiffs == 2
\* differences of one diff outside the Resources section
MaxOther == 1
\* the longest comment content the store accepts, in characters, scaled to
\* the comments of TemplateDiffs (GitHub's limit less the marker and footer)
MaxBodyLength == 400
\* how many times the action is run on the pull request
MaxRuns == 2

-----------------------------------------------------------------------------
(* The diff engine's data, as evaluateDiff reads it *)

Undefined == "undefined"

CdkMetadata == "AWS::CDK::Metadata"
LambdaFunction == "AWS::Lambda::Function"
IamRole == "AWS::IAM::Role"

ResourceTypes == {CdkMetadata, LambdaFunction, IamRole}

PropertyNames == {"Code", "Metadata", "FunctionName"}

ResourceImpact ==
    {"WILL_UPDATE", "WILL_CREATE", "WILL_REPLACE", "MAY_REPLACE",
     "WILL_DESTROY", "WILL_ORPHAN", "NO_CHANGE"}

\* change.oldValue / change.newValue: undefined, or a resource whose Type may
\* itself be missing
NoValue == [defined |-> FALSE, Type |-> Undefined]

ResourceValues ==
    {NoValue} \cup [defined : {TRUE}, Type : ResourceTypes \cup {Undefined}]

\* a ResourceDifference of the given property-key sets and impacts: at least
\* one side is defined, and the diff engine reports property updates only for
\* a resource present on both sides whose Type is unchanged; the changeImpact
\* is whatever the diff engine reports
differencesOver(keySets, impacts) ==
    {c \in [oldValue : ResourceValues, newValue : ResourceValues,
            propertyUpdates : keySets, changeImpact : impacts] :
        /\ c.oldValue.defined \/ c.newValue.defined
        /\ c.propertyUpdates # {} =>
              /\ c.oldValue.defined /\ c.newValue.defined
              /\ c.oldValue.Type = c.newValue.Type
              /\ c.oldValue.Type # Undefined}

ResourceDifferences == differencesOver(SUBSET PropertyNames, ResourceImpact)

isAddition(c) == ~c.oldValue.defined
isRemoval(c) == ~c.newValue.defined
isUpdate(c) == c.oldValue.defined /\ c.newValue.defined

\* change.oldValue?.Type ?? change.newValue?.Type
resourceType(c) ==
    IF c.oldValue.defined /\ c.oldValue.Type # Undefined
    THEN c.oldValue.Type
    ELSE IF c.newValue.defined THEN c.newValue.Type ELSE Undefined

\* the i-th key of the Resources map, in forEachDifference's iteration order
logicalIdAt(i) == "Resource" \o ToString(i)

-----------------------------------------------------------------------------
(* StackDiff.evaluateDiff *)

NoChanges ==
    [createdResources |-> 0, removedResources |-> 0, updatedResources |-> 0,
     destructiveChanges |-> <<>>]

\* variant: the switch has no case for the metadata marker type
skippedLambdaOnly(c) ==
    /\ resourceType(c) = LambdaFunction
    /\ \/ (Cardinality(c.propertyUpdates) <= 2 /\ "Code" \in c.propertyUpdates)
       \/ "Metadata" \in c.propertyUpdates

\* the switch on resourceType: TRUE when the callback returns from it
skipped(c) ==
    LET keys == c.propertyUpdates
    IN  \/ resourceType(c) = CdkMetadata
        \/ /\ resourceType(c) = LambdaFunction
           /\ \/ (Cardinality(keys) <= 2 /\ "Code" \in keys)
              \/ "Metadata" \in keys

\* variant: removals are not counted
countedWithoutRemovals(ch, c) ==
    IF isUpdate(c)
    THEN [ch EXCEPT !.updatedResources = @ + 1]
    ELSE IF isRemoval(c)
         THEN ch
         ELSE IF isAddition(c)
              THEN [ch EXCEPT !.createdResources = @ + 1]
              ELSE ch

\* variant: the chain ends after isRemoval, additions are not counted
countedWithoutAdditions(ch, c) ==
    IF isUpdate(c)
    THEN [ch EXCEPT !.updatedResources = @ + 1]
    ELSE IF isRemoval(c)
         THEN [ch EXCEPT !.removedResources = @ + 1]
         ELSE ch

\* the if / else-if chain on isUpdate, isRemoval, isAddition
counted(ch, c) ==
    IF isUpdate(c)
    THEN [ch EXCEPT !.updatedResources = @ + 1]
    ELSE IF isRemoval(c)
         THEN [ch EXCEPT !.removedResources = @ + 1]
         ELSE IF isAddition(c)
              THEN [ch EXCEPT !.createdResources = @ + 1]
              ELSE ch

\* variant: the removal branch runs before the allow-list is consulted
allowedToDestroyUnlessRemoval(c, allowed) ==
    ~isRemoval(c) /\ resourceType(c) # Undefined /\ resourceType(c) \in allowed

\* variant: a difference without a resource type passes as allowed
allowedToDestroyWithoutType(c, allowed) ==
    resourceType(c) = Undefined \/ resourceType(c) \in allowed

\* resourceType && this.allowedDestroyTypes.includes(resourceType)
allowedToDestroy(c, allowed) ==
    resourceType(c) # Undefined /\ resourceType(c) \in allowed

\* the switch on change.changeImpact
destructiveImpact(impact) ==
    impact \in {"MAY_REPLACE", "WILL_ORPHAN", "WILL_DESTROY", "WILL_REPLACE"}

\* variant: the removal entry carries the impact the diff engine reports
removalImpactAsReported(c) == c.changeImpact

\* the impact pushed for a removal
removalImpact(c) == "WILL_DESTROY"

\* variant: the destructive entry is put in front of the list
classifiedInFront(ch, templateId, logicalId, c) ==
    IF isRemoval(c)
    THEN [ch EXCEPT !.destructiveChanges =
            <<[impact |-> removalImpact(c), logicalId |-> logicalId,
               stackName |-> templateId]>> \o @]
    ELSE IF destructiveImpact(c.changeImpact)
         THEN [ch EXCEPT !.destructiveChanges =
                 <<[impact |-> c.changeImpact, logicalId |-> logicalId,
                    stackName |-> templateId]>> \o @]
         ELSE ch

\* the tail of the callback: the destructive entry pushed, if any
classified(ch, templateId, logicalId, c) ==
    IF isRemoval(c)
    THEN [ch EXCEPT !.destructiveChanges =
            Append(@, [impact |-> removalImpact(c), logicalId |-> logicalId,
                       stackName |-> templateId])]
    ELSE IF destructiveImpact(c.changeImpact)
         THEN [ch EXCEPT !.destructiveChanges =
                 Append(@, [impact |-> c.changeImpact, logicalId |-> logicalId,
                            stackName |-> templateId])]
         ELSE ch

\* the forEachDifference callback
evaluateDifference(ch, templateId, logicalId, c, allowed) ==
    IF skipped(c)
    THEN ch
    ELSE IF allowedToDestroy(c, allowed)
         THEN counted(ch, c)
         ELSE classified(counted(ch, c), templateId, logicalId, c)

RECURSIVE evaluateFrom(_, _, _, _, _)
evaluateFrom(ch, templateId, resources, i, allowed) ==
    IF i > Len(resources)
    THEN ch
    ELSE evaluateFrom(
            evaluateDifference(ch, templateId, logicalIdAt(i), resources[i],
                               allowed),
            templateId, resources, i + 1, allowed)

evaluateDiff(templateId, templateDiff, allowed) ==
    evaluateFrom(NoChanges, templateId, templateDiff.resources, 1, allowed)

-----------------------------------------------------------------------------
(* AssemblyProcessor.getEmoji / formatStackComment *)

\* variant: updates are looked at before removals
getEmojiUpdatedFirst(ch) ==
    IF ch.updatedResources # 0
    THEN ":yellow_circle:"
    ELSE IF Len(ch.destructiveChanges) # 0 \/ ch.removedResources # 0
         THEN ":x:"
         ELSE IF ch.createdResources # 0
              THEN ":sparkle:"
              ELSE ":white_check_mark:"

getEmoji(ch) ==
    IF Len(ch.destructiveChanges) # 0 \/ ch.removedResources # 0
    THEN ":x:"
    ELSE IF ch.updatedResources # 0
         THEN ":yellow_circle:"
         ELSE IF ch.createdResources # 0
              THEN ":sparkle:"
              ELSE ":white_check_mark:"

\* TemplateDiff.isEmpty: no difference in any section of the template
isEmpty(diff) == diff.differenceCount = 0

\* formatDifferences writes the diff engine's own rendering of the diff
formatDifferences(diff) == diff.text

\* the three backquotes opening and closing the fenced block (a backquote
\* cannot be written inside a string of this language)
Fence == "[fence]"

WarningHeader == "> [!WARNING]\n> ***Destructive Changes*** :bangbang:"

destructiveLine(d) ==
    "> **Stack: " \o d.stackName \o " - Resource: " \o d.logicalId \o
    " - Impact:** ***" \o d.impact \o "***"

RECURSIVE destructiveLines(_, _)
destructiveLines(ds, i) ==
    IF i > Len(ds)
    THEN <<>>
    ELSE <<destructiveLine(ds[i]), "">> \o destructiveLines(ds, i + 1)

\* the warning block pushed when changes.destructiveChanges.length is truthy
warningBlock(ch) ==
    IF Len(ch.destructiveChanges) # 0
    THEN <<"", WarningHeader>> \o destructiveLines(ch.destructiveChanges, 1)
    ELSE <<>>

stackHeader(stackName, ch) ==
    "#### Diff for stack: " \o stackName \o " - ***" \o
    ToString(ch.createdResources) \o " to add, " \o
    ToString(ch.updatedResources) \o " to update, " \o
    ToString(ch.removedResources) \o " to destroy***  " \o getEmoji(ch)

\* variant: the "No Changes" line of the first revision, without the emoji
formatStackCommentNoEmoji(stackName, diff, ch) ==
    IF isEmpty(diff)
    THEN <<"No Changes for stack: " \o stackName>>
    ELSE <<stackHeader(stackName, ch), "<details><summary>Details</summary>",
           "">>
         \o warningBlock(ch)
         \o <<"", Fence \o "shell", formatDifferences(diff), Fence, "</details>",
              "">>

formatStackComment(stackName, diff, ch) ==
    IF isEmpty(diff)
    THEN <<"No Changes for stack: " \o stackName \o " " \o getEmoji(ch)>>
    ELSE <<stackHeader(stackName, ch), "<details><summary>Details</summary>",
           "">>
         \o warningBlock(ch)
         \o <<"", Fence \o "shell", formatDifferences(diff), Fence, "</details>",
              "">>

-----------------------------------------------------------------------------
(* The cloud assembly and the template diffs of one run *)

\* a stage with two stacks and one top-level stack
AssemblyWithStage ==
    [stages |-> <<[name |-> "SomeStage",
                   stacks |-> <<"SomeStage/a", "SomeStage/b">>]>>,
     stacks |-> <<"top">>]

\* a single stage with a single stack, no top-level stack
AssemblyOneStack ==
    [stages |-> <<[name |-> "SomeStage", stacks |-> <<"SomeStage/a">>]>>,
     stacks |-> <<>>]

\* two stages of one stack each and one top-level stack
AssemblySeveralStages ==
    [stages |-> <<[name |-> "SomeStage", stacks |-> <<"SomeStage/a">>],
                  [name |-> "OtherStage", stacks |-> <<"OtherStage/c">>]>>,
     stacks |-> <<"top">>]

Assemblies == {AssemblyWithStage, AssemblyOneStack, AssemblySeveralStages}

DefaultStageDisplayName == "DefaultStage"

Titles == {Undefined, "Diff for MyStage"}

\* a TemplateDiff: its resource differences in iteration order, its
\* differenceCount over every section of the template, and its rendering
templateDiff(resources, others, text) ==
    [resources |-> resources, differenceCount |-> Len(resources) + others,
     text |-> text]

Defined(type) == [defined |-> TRUE, Type |-> type]

functionReplaced ==
    [oldValue |-> Defined(LambdaFunction), newValue |-> Defined(LambdaFunction),
     propertyUpdates |-> {"FunctionName"}, changeImpact |-> "WILL_REPLACE"]

roleRemoved ==
    [oldValue |-> Defined(IamRole), newValue |-> NoValue,
     propertyUpdates |-> {}, changeImpact |-> "WILL_DESTROY"]

roleAdded ==
    [oldValue |-> NoValue, newValue |-> Defined(IamRole),
     propertyUpdates |-> {}, changeImpact |-> "WILL_CREATE"]

\* the diffs toolkit.diff may report for a stack
TemplateDiffs ==
    {templateDiff(<<>>, 0, ""),
     templateDiff(<<roleAdded>>, 0, "[+] AWS::IAM::Role"),
     templateDiff(<<roleRemoved, functionReplaced>>, 1,
                  "[-] AWS::IAM::Role [~] AWS::Lambda::Function")}

-----------------------------------------------------------------------------
(* AssemblyProcessor *)

\* variant: a default stage only when the assembly has no stage at all
processAssemblyDefaultWithoutStages(a) ==
    IF Len(a.stages) = 0
    THEN <<[name |-> DefaultStageDisplayName, stacks |-> a.stacks]>>
    ELSE a.stages

\* processAssembly: the stages, then a default stage for top-level stacks
processAssembly(a) ==
    IF Len(a.stacks) # 0
    THEN Append(a.stages,
                [name |-> DefaultStageDisplayName, stacks |-> a.stacks])
    ELSE a.stages

\* JSON.stringify of a string (the names and titles here need no escape)
quoted(str) == "\"" \o str \o "\""

\* JSON.stringify of the title property: an undefined value is left out
titleProperty(t) ==
    IF t = Undefined THEN "" ELSE "\"title\":" \o quoted(t) \o ","

\* JSON.stringify of the stacks array: [{"name":...},...]
RECURSIVE joined(_, _)
joined(names, i) ==
    IF i > Len(names)
    THEN ""
    ELSE "{\"name\":" \o quoted(names[i]) \o "}"
         \o (IF i < Len(names) THEN "," ELSE "")
         \o joined(names, i + 1)

\* md5Hash, taken to be injective: the hash is written as the hashed text
md5Hash(val) == "md5(" \o val \o ")"

\* variant: the title is left out of the hashed object
stageHashWithoutTitle(st, t) ==
    md5Hash("{\"stageName\":" \o quoted(st.name) \o ","
            \o "\"stacks\":[" \o joined(st.stacks, 1) \o "]}")

\* md5Hash(JSON.stringify({stageName, title, stacks: [{name}, ...]}))
stageHash(st, t) ==
    md5Hash("{\"stageName\":" \o quoted(st.name) \o "," \o titleProperty(t)
            \o "\"stacks\":[" \o joined(st.stacks, 1) \o "]}")

\* variant: the name of the stack is left out of the hashed object
stackHashOfStage(t, stageName, stackName) ==
    md5Hash("{" \o titleProperty(t) \o "\"stageName\":" \o quoted(stageName)
            \o "}")

\* md5Hash(JSON.stringify({title, stageName, stackName}))
stackHash(t, stageName, stackName) ==
    md5Hash("{" \o titleProperty(t) \o "\"stageName\":" \o quoted(stageName)
            \o ",\"stackName\":" \o quoted(stackName) \o "}")

Range(seq) == {seq[i] : i \in DOMAIN seq}

\* the stageDiffInfo getter's side effect: one StageComment per stage
initialStageComments(stages, t) ==
    [name \in {st.name : st \in Range(stages)} |->
        LET st == CHOOSE x \in Range(stages) : x.name = name
        IN  [title |-> t,
             destructiveChanges |-> 0,
             stackComments |-> [s \in Range(st.stacks) |-> <<>>],
             hash |-> stageHash(st, t)]]

\* the stacks in the order processStages visits them, each with its stage
RECURSIVE unitsFrom(_, _)
unitsFrom(stages, i) ==
    IF i > Len(stages)
    THEN <<>>
    ELSE [j \in 1..Len(stages[i].stacks) |->
            [stageName |-> stages[i].name, stackName |-> stages[i].stacks[j]]]
         \o unitsFrom(stages, i + 1)

units == unitsFrom(stageInfo, 1)

\* variant: the stage's count grows whether or not the stage is ignored
addDestructiveAlways(count, stageName, ignore, n) == count + n

\* if (!ignoreDestructiveChanges.includes(stage.name)) destructiveChanges += changes
addDestructive(count, stageName, ignore, n) ==
    IF stageName \notin ignore THEN count + n ELSE count

\* one iteration of processStages' inner loop, diffStack included
processStack(comments, u, diff, allowed, ignore) ==
    LET ch == evaluateDiff(u.stackName, diff, allowed)
        comment == formatStackComment(u.stackName, diff, ch)
    IN  [comments EXCEPT
            ![u.stageName].stackComments[u.stackName] = @ \o comment,
            ![u.stageName].destructiveChanges =
                addDestructive(@, u.stageName, ignore,
                               Len(ch.destructiveChanges))]

\* variant: true only when every stage has destructive changes
hasDestructiveChangesInEveryStage(comments) ==
    \A name \in DOMAIN comments : comments[name].destructiveChanges # 0

\* the hasDestructiveChanges getter
hasDestructiveChanges(comments) ==
    \E name \in DOMAIN comments : comments[name].destructiveChanges # 0

RECURSIVE flatStackComments(_, _, _)
flatStackComments(stackComments, stacks, i) ==
    IF i > Len(stacks)
    THEN <<>>
    ELSE stackComments[stacks[i]] \o flatStackComments(stackComments, stacks, i + 1)

titleLines(t) == IF t # Undefined THEN <<"## " \o t, "">> ELSE <<>>

getCommentForStack(t, stageName, stackName, comment) ==
    IF Len(comment) = 0
    THEN <<>>
    ELSE titleLines(t)
         \o <<"### Diff for stack: " \o stageName \o " / " \o stackName>>
         \o comment

stageWarning(count) ==
    "> [!WARNING]\n> " \o ToString(count) \o " Destructive Changes"

\* variant: the warning is pushed whatever the count is
getCommentForStageAlwaysWarns(comments, st, t) ==
    LET all == flatStackComments(comments[st.name].stackComments, st.stacks, 1)
        count == comments[st.name].destructiveChanges
    IN  IF Len(all) = 0
        THEN <<>>
        ELSE titleLines(t)
             \o <<"### Diff for stage: " \o st.name>>
             \o <<stageWarning(count), "">>
             \o all

getCommentForStage(comments, st, t) ==
    LET all == flatStackComments(comments[st.name].stackComments, st.stacks, 1)
        count == comments[st.name].destructiveChanges
    IN  IF Len(all) = 0
        THEN <<>>
        ELSE titleLines(t)
             \o <<"### Diff for stage: " \o st.name>>
             \o (IF count # 0 THEN <<stageWarning(count), "">> ELSE <<>>)
             \o all

-----------------------------------------------------------------------------
(* Comments: the pull request's comments *)

marker(hash) == "<!-- cdk diff action with hash " \o hash \o " -->"

Footer == "_Generated for commit sha at timestamp_"

commentBody(hash, content) == <<marker(hash)>> \o content \o <<"", Footer>>

\* comment.body?.includes(hash), the body read line by line
includesHash(body, hash) == \E i \in DOMAIN body : body[i] = marker(hash)

NoComment == 0

\* no run of the action before this one
NoRun == [templateDiffs |-> <<>>, pc |-> "none"]

\* variant: the first comment of the list is taken whatever it carries
findPreviousWhateverHash(comments, hash) ==
    IF Len(comments) > 0 THEN comments[1].id ELSE NoComment

\* variant: no previous comment is ever found
findPreviousNever(comments, hash) == NoComment

\* variant: only the first comment of the list is looked at
findPreviousFirstOnly(comments, hash) ==
    IF Len(comments) > 0 /\ includesHash(comments[1].body, hash)
    THEN comments[1].id
    ELSE NoComment

\* Comments.findPrevious: the id of the first comment whose body has the hash
findPrevious(comments, hash) ==
    IF \E i \in DOMAIN comments : includesHash(comments[i].body, hash)
    THEN comments[CHOOSE i \in DOMAIN comments :
                     /\ includesHash(comments[i].body, hash)
                     /\ \A j \in 1..(i - 1) :
                           ~includesHash(comments[j].body, hash)].id
    ELSE NoComment

\* variant: the updated body starts with the content, without the marker
updateCommentContentOnly(comments, id, hash, content) ==
    [i \in DOMAIN comments |->
        IF comments[i].id = id
        THEN [comments[i] EXCEPT !.body = content \o <<"", Footer>>]
        ELSE comments[i]]

\* Comments.updateComment, accepted by the store
updateComment(comments, id, hash, content) ==
    [i \in DOMAIN comments |->
        IF comments[i].id = id
        THEN [comments[i] EXCEPT !.body = commentBody(hash, content)]
        ELSE comments[i]]

\* Comments.createComment, accepted by the store
createComment(comments, id, hash, content) ==
    Append(comments, [id |-> id, body |-> commentBody(hash, content)])

\* content.join('\n').length
RECURSIVE joinedLength(_, _)
joinedLength(lines, i) ==
    IF i > Len(lines)
    THEN 0
    ELSE Len(lines[i]) + (IF i < Len(lines) THEN 1 ELSE 0)
         + joinedLength(lines, i + 1)

\* what the store answers to createComment / updateComment
StoreAnswers == {"ok", "Body is too long", "Validation Error"}

\* the answers the store may give for a content: a body over the limit is
\* refused as too long, any other is accepted or refused for another reason
storeAnswers(content) ==
    IF joinedLength(content, 1) > MaxBodyLength
    THEN {"Body is too long"}
    ELSE StoreAnswers \ {"Body is too long"}

\* variant: every error of the store counts as a body that is too long
bodyTooLongErrorAlways(e) == TRUE

\* bodyTooLongError(e)
bodyTooLongError(e) == e = "Body is too long"

\* the RequestError the store call rejects with, carrying the answer e
requestError(e) == [name |-> "HttpError", message |-> e]

\* new Error(message)
newError(message) == [name |-> "Error", message |-> message]

\* commentStack: the message handed to handleError
stackTooLongMessage(stackName) ==
    "Comment for stack " \o stackName
    \o " is too long, please report this as a bug "
    \o "https://github.com/corymhall/cdk-diff-action/issues/new"

\* variant: every error is replaced by the message
handleErrorAlwaysMessage(e, message) == newError(message)

\* handleError(e, message): the error thrown, a new Error carrying the
\* message for a body that is too long, otherwise e itself
handleError(e, message) ==
    IF bodyTooLongError(e)
    THEN newError(message)
    ELSE requestError(e)

\* String(reason), as Array.prototype.join renders an error
errorString(reason) == reason.name \o ": " \o reason.message

-----------------------------------------------------------------------------
(* SpecDiff: one StackDiff.diffStack call followed by formatStackComment *)

UnitName == "test-stack"

NoDifference ==
    [oldValue |-> NoValue, newValue |-> NoValue, propertyUpdates |-> {},
     changeImpact |-> "NO_CHANGE"]

\* the diff as formatStackComment reads it once evaluateDiff has walked its
\* `index` resource differences; `others` counts its differences outside the
\* Resources section
walkedDiff(others) ==
    [differenceCount |-> index + others, text |-> "diff of " \o UnitName]

\* the run's variables while only diffStack is looked at
RunIdle ==
    /\ failOnDestructiveChanges = TRUE
    /\ noFailOnDestructiveChanges = {}
    /\ title = Undefined
    /\ assembly = AssemblyOneStack
    /\ templateDiffs = <<>>
    /\ stageInfo = <<>>
    /\ stageComments = <<>>
    /\ pc = "idle"
    /\ unit = 1
    /\ stage = 1
    /\ previous = NoComment
    /\ stackTasks = <<>>
    /\ store = <<>>
    /\ nextId = 1
    /\ error = ""
    /\ calls = <<>>
    /\ runs = 1
    /\ lastRun = NoRun
    /\ diffCalls = 0

\* the diffStack variables while the run is looked at
DiffIdle ==
    /\ phase = "idle"
    /\ index = 0
    /\ otherCount = 0
    /\ change = NoDifference
    /\ before = NoChanges
    /\ changes = NoChanges
    /\ unskipped = 0
    /\ unitComment = <<>>

DiffInit ==
    /\ RunIdle
    /\ allowedDestroyTypes \in SUBSET ResourceTypes
    /\ phase = "evaluateDiff"
    /\ index = 0
    /\ otherCount = 0
    /\ change = NoDifference
    /\ before = NoChanges
    /\ changes = NoChanges
    /\ unskipped = 0
    /\ unitComment = <<>>

\* one invocation of the forEachDifference callback
ForEachDifference ==
    /\ phase = "evaluateDiff"
    /\ index < MaxDiffs
    /\ \E c \in ResourceDifferences :
          /\ change' = c
          /\ before' = changes
          /\ changes' = evaluateDifference(changes, UnitName,
                                           logicalIdAt(index + 1), c,
                                           allowedDestroyTypes)
          /\ unskipped' = IF skipped(c) THEN unskipped ELSE unskipped + 1
    /\ index' = index + 1
    /\ UNCHANGED <<allowedDestroyTypes, phase, otherCount, unitComment, runVars,
                   logVars>>

\* forEachDifference has visited every resource difference: diffStack returns
\* {diff, changes} and the processor renders the stack's comment
FormatStackComment ==
    /\ phase = "evaluateDiff"
    /\ \E others \in 0..MaxOther :
          /\ otherCount' = others
          /\ unitComment' =
                formatStackComment(UnitName, walkedDiff(others), changes)
    /\ phase' = "formatted"
    /\ UNCHANGED <<allowedDestroyTypes, index, change, before, changes,
                   unskipped, runVars, logVars>>

DiffNext == ForEachDifference \/ FormatStackComment

SpecDiff == DiffInit /\ [][DiffNext]_vars

-----------------------------------------------------------------------------
(* Spec: one run of the action *)

stackNames(a) ==
    UNION {Range(st.stacks) : st \in Range(processAssembly(a))}

stageNames(a) == {st.name : st \in Range(processAssembly(a))}

\* a comment an earlier run left on the pull request
earlier(id, hash) == [id |-> id, body |-> commentBody(hash, <<"earlier run">>)]

\* the pull request before the run: no comment, or the stage comments and
\* the first stage's stack comments of an earlier run
InitialStores(a, t) ==
    LET stages == processAssembly(a)
        first == stages[1]
    IN  {<<>>,
         [i \in 1..Len(stages) |-> earlier(i, stageHash(stages[i], t))],
         [i \in 1..Len(first.stacks) |->
            earlier(i, stackHash(t, first.name, first.stacks[i]))]}

Init ==
    /\ DiffIdle
    /\ allowedDestroyTypes \in {{}, {LambdaFunction}}
    /\ failOnDestructiveChanges \in BOOLEAN
    /\ assembly \in Assemblies
    /\ noFailOnDestructiveChanges \in SUBSET stageNames(assembly)
    /\ title \in Titles
    /\ templateDiffs = <<>>
    /\ stageInfo = <<>>
    /\ stageComments = <<>>
    /\ pc = "diffApp"
    /\ unit = 1
    /\ stage = 1
    /\ previous = NoComment
    /\ stackTasks = <<>>
    /\ store \in InitialStores(assembly, title)
    /\ nextId = Len(store) + 1
    /\ error = ""
    /\ calls = <<>>
    /\ runs = 1
    /\ lastRun = NoRun
    /\ diffCalls = 0

\* a call of the store: the Comments method, the hash it was given, the
\* comment id it was given (updateComment) or returned (findPrevious), and
\* how the store answered
call(op, hash, id, answer) ==
    [run |-> runs, op |-> op, hash |-> hash, id |-> id, answer |-> answer]

\* the store has answered a call
called(op, hash, id, answer) ==
    calls' = Append(calls, call(op, hash, id, answer))

\* variant: a new comment is created whether or not a previous one was found
publishOpAlwaysCreate(prev) == "createComment"

\* if (previous) updateComment else createComment
publishOp(prev) == IF prev # NoComment THEN "updateComment" ELSE "createComment"

\* variant: the error is logged and the run goes on to commentStages
rejectedButGoesOn(e) == pc' = "commentStage" /\ error' = e

\* variant: the failed step is tried again
rejectedAndRetried(e) == pc' = pc /\ error' = e

\* run() rejects with e
rejected(e) == pc' = "failed" /\ error' = e

\* processStages: diffApp resolves; toolkit.diff reported a diff for every
\* stack, processAssembly and the stageDiffInfo getter have run
DiffApp ==
    /\ pc = "diffApp"
    /\ templateDiffs = <<>>
    /\ templateDiffs' \in [stackNames(assembly) -> TemplateDiffs]
    /\ stageInfo' = processAssembly(assembly)
    /\ stageComments' = initialStageComments(processAssembly(assembly), title)
    /\ pc' = "diffStack"
    /\ UNCHANGED <<allowedDestroyTypes, diffVars, failOnDestructiveChanges,
                   noFailOnDestructiveChanges, title, assembly, unit, stage,
                   previous, stackTasks, store, nextId, error>>
    /\ diffCalls' = diffCalls + 1
    /\ UNCHANGED <<calls, runs, lastRun>>

\* processStages: toolkit.diff rejects
DiffAppFails ==
    /\ pc = "diffApp"
    /\ templateDiffs = <<>>
    /\ rejected("toolkit.diff failed")
    /\ UNCHANGED <<allowedDestroyTypes, diffVars, failOnDestructiveChanges,
                   noFailOnDestructiveChanges, title, assembly, templateDiffs,
                   stageInfo, stageComments, unit, stage, previous, stackTasks,
                   store, nextId>>
    /\ diffCalls' = diffCalls + 1
    /\ UNCHANGED <<calls, runs, lastRun>>

\* processStages: one stack diffed, its comment and count recorded; after the
\* last stack processStages resolves and run() calls commentStages
DiffStack ==
    /\ pc = "diffStack"
    /\ unit <= Len(units)
    /\ stageComments' =
          processStack(stageComments, units[unit],
                       templateDiffs[units[unit].stackName],
                       allowedDestroyTypes, noFailOnDestructiveChanges)
    /\ unit' = unit + 1
    /\ pc' = IF unit = Len(units) THEN "commentStage" ELSE "diffStack"
    /\ UNCHANGED <<allowedDestroyTypes, diffVars, failOnDestructiveChanges,
                   noFailOnDestructiveChanges, title, assembly, templateDiffs,
                   stageInfo, stage, previous, stackTasks, store, nextId,
                   error>>
    /\ UNCHANGED logVars

\* processStages: diffStack throws (formatDifferences is not ours)
DiffStackFails ==
    /\ pc = "diffStack"
    /\ unit <= Len(units)
    /\ rejected("diffStack failed")
    /\ UNCHANGED <<allowedDestroyTypes, diffVars, failOnDestructiveChanges,
                   noFailOnDestructiveChanges, title, assembly, templateDiffs,
                   stageInfo, stageComments, unit, stage, previous, stackTasks,
                   store, nextId>>
    /\ UNCHANGED logVars

\* variant: the stages are taken from the last to the first
currentStageBackwards == stageInfo[Len(stageInfo) + 1 - stage]

currentStage == stageInfo[stage]

\* variant: commentStages returns after the first stage
nextStageReturnsEarly ==
    /\ stage' = stage + 1
    /\ pc' = "decide"

\* commentStages moves on to the next stage, or resolves
nextStage ==
    /\ stage' = stage + 1
    /\ pc' = IF stage = Len(stageInfo) THEN "decide" ELSE "commentStage"

\* commentStage: findPrevious resolves
CommentStageFindPrevious ==
    /\ pc = "commentStage"
    /\ previous' = findPrevious(store, stageComments[currentStage.name].hash)
    /\ pc' = "publishStage"
    /\ UNCHANGED <<allowedDestroyTypes, diffVars, failOnDestructiveChanges,
                   noFailOnDestructiveChanges, title, assembly, templateDiffs,
                   stageInfo, stageComments, unit, stage, stackTasks, store,
                   nextId, error>>
    /\ called("findPrevious", stageComments[currentStage.name].hash,
              previous', "ok")
    /\ UNCHANGED <<runs, lastRun, diffCalls>>

\* commentStage: findPrevious rejects, commentStages rethrows
CommentStageFindPreviousFails ==
    /\ pc = "commentStage"
    /\ rejected("listComments failed")
    /\ UNCHANGED <<allowedDestroyTypes, diffVars, failOnDestructiveChanges,
                   noFailOnDestructiveChanges, title, assembly, templateDiffs,
                   stageInfo, stageComments, unit, stage, previous, stackTasks,
                   store, nextId>>
    /\ called("findPrevious", stageComments[currentStage.name].hash,
              NoComment, "listComments failed")
    /\ UNCHANGED <<runs, lastRun, diffCalls>>

\* the store after an accepted updateComment / createComment
published(prev, hash, content) ==
    /\ store' = IF prev # NoComment
                THEN updateComment(store, prev, hash, content)
                ELSE createComment(store, nextId, hash, content)
    /\ nextId' = IF prev # NoComment THEN nextId ELSE nextId + 1

\* commentStage: updateComment / createComment accepted
CommentStagePublished ==
    /\ pc = "publishStage"
    /\ "ok" \in storeAnswers(getCommentForStage(stageComments, currentStage,
                                                title))
    /\ published(previous, stageComments[currentStage.name].hash,
                 getCommentForStage(stageComments, currentStage, title))
    /\ nextStage
    /\ UNCHANGED <<allowedDestroyTypes, diffVars, failOnDestructiveChanges,
                   noFailOnDestructiveChanges, title, assembly, templateDiffs,
                   stageInfo, stageComments, unit, previous, stackTasks, error>>
    /\ called(publishOp(previous), stageComments[currentStage.name].hash,
              previous, "ok")
    /\ UNCHANGED <<runs, lastRun, diffCalls>>

\* a promise that is not rejected has no reason
NoReason == [name |-> "", message |-> ""]

\* variant: the stacks of every stage get a commentStack promise
startedTasksAllStages(st) ==
    [s \in stackNames(assembly) |->
        [state |-> "findPrevious", previous |-> NoComment, reason |-> NoReason]]

\* variant: only the first stack of the stage gets a commentStack promise
startedTasksFirstOnly(st) ==
    [s \in Range(st.stacks) |->
        [state |-> IF s = st.stacks[1] THEN "findPrevious" ELSE "fulfilled",
         previous |-> NoComment, reason |-> NoReason]]

\* the commentStack promises as commentStacks creates them: each has run up to
\* its findPrevious call
startedTasks(st) ==
    [s \in Range(st.stacks) |->
        [state |-> "findPrevious", previous |-> NoComment, reason |-> NoReason]]

\* variant: any stage whose comment is too long is commented stack by stack
fallsBackWithOneStack(e, st) == bodyTooLongError(e)

\* commentStages: the condition of the catch under which commentStacks runs
fallsBack(e, st) == bodyTooLongError(e) /\ Len(st.stacks) > 1

\* commentStage: updateComment / createComment refused; commentStages falls
\* back to commentStacks for a body that is too long, and rethrows otherwise
CommentStageRefused ==
    /\ pc = "publishStage"
    /\ \E e \in storeAnswers(getCommentForStage(stageComments, currentStage,
                                                title)) \ {"ok"} :
          /\ IF fallsBack(e, currentStage)
             THEN /\ stackTasks' = startedTasks(currentStage)
                  /\ pc' = "commentStacks"
                  /\ error' = error
             ELSE /\ rejected(e)
                  /\ stackTasks' = stackTasks
          /\ called(publishOp(previous),
                    stageComments[currentStage.name].hash, previous, e)
    /\ UNCHANGED <<runs, lastRun, diffCalls>>
    /\ UNCHANGED <<allowedDestroyTypes, diffVars, failOnDestructiveChanges,
                   noFailOnDestructiveChanges, title, assembly, templateDiffs,
                   stageInfo, stageComments, unit, stage, previous, store,
                   nextId>>

\* commentStack: const stackComment = this.getCommentForStack(...)
stackContent(s) ==
    getCommentForStack(title, currentStage.name, s,
                       stageComments[currentStage.name].stackComments[s])

\* commentStack: findPrevious resolves
CommentStackFindPrevious ==
    /\ pc = "commentStacks"
    /\ \E s \in DOMAIN stackTasks :
          /\ stackTasks[s].state = "findPrevious"
          /\ stackTasks' =
                [stackTasks EXCEPT
                    ![s].state = "publish",
                    ![s].previous =
                        findPrevious(store,
                                     stackHash(title, currentStage.name, s))]
          /\ called("findPrevious", stackHash(title, currentStage.name, s),
                    findPrevious(store,
                                 stackHash(title, currentStage.name, s)), "ok")
    /\ UNCHANGED <<runs, lastRun, diffCalls>>
    /\ UNCHANGED <<allowedDestroyTypes, diffVars, failOnDestructiveChanges,
                   noFailOnDestructiveChanges, title, assembly, templateDiffs,
                   stageInfo, stageComments, pc, unit, stage, previous, store,
                   nextId, error>>

\* commentStack: findPrevious rejects, outside the try block
CommentStackFindPreviousFails ==
    /\ pc = "commentStacks"
    /\ \E s \in DOMAIN stackTasks :
          /\ stackTasks[s].state = "findPrevious"
          /\ stackTasks' =
                [stackTasks EXCEPT ![s].state = "rejected",
                                   ![s].reason =
                                       requestError("listComments failed")]
          /\ called("findPrevious", stackHash(title, currentStage.name, s),
                    NoComment, "listComments failed")
    /\ UNCHANGED <<runs, lastRun, diffCalls>>
    /\ UNCHANGED <<allowedDestroyTypes, diffVars, failOnDestructiveChanges,
                   noFailOnDestructiveChanges, title, assembly, templateDiffs,
                   stageInfo, stageComments, pc, unit, stage, previous, store,
                   nextId, error>>

\* commentStack: updateComment / createComment accepted
CommentStackPublished ==
    /\ pc = "commentStacks"
    /\ \E s \in DOMAIN stackTasks :
          /\ stackTasks[s].state = "publish"
          /\ "ok" \in storeAnswers(stackContent(s))
          /\ published(stackTasks[s].previous,
                       stackHash(title, currentStage.name, s),
                       stackContent(s))
          /\ stackTasks' = [stackTasks EXCEPT ![s].state = "fulfilled"]
          /\ called(publishOp(stackTasks[s].previous),
                    stackHash(title, currentStage.name, s),
                    stackTasks[s].previous, "ok")
    /\ UNCHANGED <<runs, lastRun, diffCalls>>
    /\ UNCHANGED <<allowedDestroyTypes, diffVars, failOnDestructiveChanges,
                   noFailOnDestructiveChanges, title, assembly, templateDiffs,
                   stageInfo, stageComments, pc, unit, stage, previous, error>>

\* commentStack: updateComment / createComment refused, handleError throws
CommentStackRefused ==
    /\ pc = "commentStacks"
    /\ \E s \in DOMAIN stackTasks, e \in StoreAnswers \ {"ok"} :
          /\ stackTasks[s].state = "publish"
          /\ e \in storeAnswers(stackContent(s))
          /\ stackTasks' =
                [stackTasks EXCEPT ![s].state = "rejected",
                                   ![s].reason =
                                       handleError(e,
                                                   stackTooLongMessage(s))]
          /\ called(publishOp(stackTasks[s].previous),
                    stackHash(title, currentStage.name, s),
                    stackTasks[s].previous, e)
    /\ UNCHANGED <<runs, lastRun, diffCalls>>
    /\ UNCHANGED <<allowedDestroyTypes, diffVars, failOnDestructiveChanges,
                   noFailOnDestructiveChanges, title, assembly, templateDiffs,
                   stageInfo, stageComments, pc, unit, stage, previous, store,
                   nextId, error>>

\* variant: commentStacks goes on without awaiting the promises
settledWithoutWaiting(task) == TRUE

\* variant: a promise never counts as settled
settledNever(task) == FALSE

\* Promise.allSettled: the promise is fulfilled or rejected
settled(task) == task.state \in {"fulfilled", "rejected"}

\* the reasons of the rejected promises, in the order of the stacks
RECURSIVE failedReasons(_, _, _)
failedReasons(tasks, stacks, i) ==
    IF i > Len(stacks)
    THEN ""
    ELSE (IF tasks[stacks[i]].state = "rejected"
          THEN "\n" \o errorString(tasks[stacks[i]].reason)
          ELSE "")
         \o failedReasons(tasks, stacks, i + 1)

\* commentStacks: Promise.allSettled resolves; an error is thrown if a
\* promise was rejected, otherwise commentStages goes on
CommentStacksSettled ==
    /\ pc = "commentStacks"
    /\ \A s \in DOMAIN stackTasks : settled(stackTasks[s])
    /\ IF \E s \in DOMAIN stackTasks : stackTasks[s].state = "rejected"
       THEN /\ rejected("Error commenting stacks: "
                        \o failedReasons(stackTasks, currentStage.stacks, 1))
            /\ stage' = stage
       ELSE /\ nextStage
            /\ error' = error
    /\ stackTasks' = <<>>
    /\ UNCHANGED <<allowedDestroyTypes, diffVars, failOnDestructiveChanges,
                   noFailOnDestructiveChanges, title, assembly, templateDiffs,
                   stageInfo, stageComments, unit, previous, store, nextId>>
    /\ UNCHANGED logVars

DestructiveError ==
    "There are destructive changes! See PR comment for details."

\* variant: the run fails whenever there are destructive changes
failsAlways(destructive, fail) == destructive

\* processor.hasDestructiveChanges && inputs.failOnDestructiveChanges
fails(destructive, fail) == destructive /\ fail

\* run: the pass/fail decision after commentStages has resolved
Decide ==
    /\ pc = "decide"
    /\ IF fails(hasDestructiveChanges(stageComments), failOnDestructiveChanges)
       THEN rejected(DestructiveError)
       ELSE pc' = "done" /\ error' = error
    /\ UNCHANGED <<allowedDestroyTypes, diffVars, failOnDestructiveChanges,
                   noFailOnDestructiveChanges, title, assembly, templateDiffs,
                   stageInfo, stageComments, unit, stage, previous, stackTasks,
                   store, nextId>>
    /\ UNCHANGED logVars

Next ==
    \/ DiffApp
    \/ DiffAppFails
    \/ DiffStack
    \/ DiffStackFails
    \/ CommentStageFindPrevious
    \/ CommentStageFindPreviousFails
    \/ CommentStagePublished
    \/ CommentStageRefused
    \/ CommentStackFindPrevious
    \/ CommentStackFindPreviousFails
    \/ CommentStackPublished
    \/ CommentStackRefused
    \/ CommentStacksSettled
    \/ Decide

Spec == Init /\ [][Next]_vars

\* the runs whose ending is checked: a title is given and no stage is
\* ignored, which leaves every step of a run possible
LiveInit ==
    /\ Init
    /\ title # Undefined
    /\ noFailOnDestructiveChanges = {}

\* one run in which toolkit.diff and every call of the store settle and the
\* continuation of a settled promise is run
SpecLive == LiveInit /\ [][Next]_vars /\ WF_vars(Next)

-----------------------------------------------------------------------------
(* SpecQuiet: the StageProcessor revision that deletes the comment of a
   stage without changes, run by run(). It has no title; its diffStack and
   formatStackComment are those above (changes.unknownEnvironment unset). *)

\* the client's limit on a comment, the number the store enforces
MAX_COMMENT_LENGTH == MaxBodyLength

\* an assembly without stages
AssemblyNoStage == [stages |-> <<>>, stacks |-> <<"top">>]

\* two stages
AssemblyTwoStages ==
    [stages |-> <<[name |-> "SomeStage",
                   stacks |-> <<"SomeStage/a", "SomeStage/b">>],
                  [name |-> "OtherStage", stacks |-> <<"OtherStage/c">>]>>,
     stacks |-> <<>>]

QuietAssemblies == {AssemblyTwoStages, AssemblyNoStage}

\* run: assembly.stages, or the default stage when there is none
quietStages(a) ==
    IF Len(a.stages) = 0
    THEN <<[name |-> "DefaultStage", stacks |-> a.stacks]>>
    ELSE a.stages

\* md5Hash(JSON.stringify({stageName, stacks: [{name, ...}, ...]}))
quietStageHash(st) ==
    md5Hash("{\"stageName\":" \o quoted(st.name) \o ",\"stacks\":["
            \o joined(st.stacks, 1) \o "]}")

\* md5Hash(JSON.stringify({stageName, stackName}))
quietStackHash(stageName, stackName) ==
    md5Hash("{\"stageName\":" \o quoted(stageName) \o ",\"stackName\":"
            \o quoted(stackName) \o "}")

\* the constructor's stageComments
quietStageComments(stages) ==
    [name \in {st.name : st \in Range(stages)} |->
        LET st == CHOOSE x \in Range(stages) : x.name = name
        IN  [totalChanges |-> 0,
             destructiveChanges |-> 0,
             stackComments |-> [s \in Range(st.stacks) |-> <<>>],
             hash |-> quietStageHash(st)]]

\* one iteration of processStages' inner loop, diffStack included
quietProcessStack(comments, u, diff, allowed, ignore) ==
    LET ch == evaluateDiff(u.stackName, diff, allowed)
        comment == formatStackComment(u.stackName, diff, ch)
    IN  [comments EXCEPT
            ![u.stageName].stackComments[u.stackName] = @ \o comment,
            ![u.stageName].totalChanges = @ + Len(ch.destructiveChanges),
            ![u.stageName].destructiveChanges =
                addDestructive(@, u.stageName, ignore,
                               Len(ch.destructiveChanges))]

\* Comments.deleteComment, accepted by the store
deleteComment(comments, id) ==
    SelectSeq(comments, LAMBDA c : c.id # id)

\* the pull request before the run
QuietStores(stages) ==
    {<<>>,
     [i \in 1..Len(stages) |-> earlier(i, quietStageHash(stages[i]))],
     [i \in 1..Len(stages[1].stacks) |->
        earlier(i, quietStackHash(stages[1].name, stages[1].stacks[i]))]}

QuietInit ==
    /\ DiffIdle
    /\ allowedDestroyTypes \in {{}, {LambdaFunction}}
    /\ failOnDestructiveChanges \in BOOLEAN
    /\ assembly \in QuietAssemblies
    /\ stageInfo = quietStages(assembly)
    /\ noFailOnDestructiveChanges \in SUBSET {st.name : st \in Range(stageInfo)}
    /\ title = Undefined
    /\ templateDiffs \in [UNION {Range(st.stacks) : st \in Range(stageInfo)}
                            -> TemplateDiffs]
    /\ stageComments = quietStageComments(stageInfo)
    /\ pc = "quietDiff"
    /\ unit = 1
    /\ stage = 1
    /\ previous = NoComment
    /\ stackTasks = <<>>
    /\ store \in QuietStores(stageInfo)
    /\ nextId = Len(store) + 1
    /\ error = ""
    /\ calls = <<>>
    /\ runs = 1
    /\ lastRun = NoRun
    /\ diffCalls = 0

\* processStages: one stack diffed, its comment and counts recorded
QuietDiffStack ==
    /\ pc = "quietDiff"
    /\ unit <= Len(units)
    /\ stageComments' =
          quietProcessStack(stageComments, units[unit],
                            templateDiffs[units[unit].stackName],
                            allowedDestroyTypes, noFailOnDestructiveChanges)
    /\ unit' = unit + 1
    /\ pc' = IF unit = Len(units) THEN "quietStage" ELSE "quietDiff"
    /\ UNCHANGED <<allowedDestroyTypes, diffVars, failOnDestructiveChanges,
                   noFailOnDestructiveChanges, title, assembly, templateDiffs,
                   stageInfo, stage, previous, stackTasks, store, nextId,
                   error, logVars>>

\* processStages: diffStack throws
QuietDiffStackFails ==
    /\ pc = "quietDiff"
    /\ unit <= Len(units)
    /\ rejected("diffStack failed")
    /\ UNCHANGED <<allowedDestroyTypes, diffVars, failOnDestructiveChanges,
                   noFailOnDestructiveChanges, title, assembly, templateDiffs,
                   stageInfo, stageComments, unit, stage, previous, stackTasks,
                   store, nextId, logVars>>

\* stageComment.join('\n').length > MAX_COMMENT_LENGTH
quietOverflows(st) ==
    joinedLength(getCommentForStage(stageComments, st, Undefined), 1)
        > MAX_COMMENT_LENGTH

\* commentStages moves on to the next stage, or resolves
quietNextStage ==
    /\ stage' = stage + 1
    /\ pc' = IF stage = Len(stageInfo) THEN "decide" ELSE "quietStage"

\* the stack commentStacks stands at
quietUnit == units[unit]

\* the hash and the content of the comment being published
quietHash ==
    IF pc = "quietPublishStage"
    THEN stageComments[currentStage.name].hash
    ELSE quietStackHash(quietUnit.stageName, quietUnit.stackName)

quietContent ==
    IF pc = "quietPublishStage"
    THEN getCommentForStage(stageComments, currentStage, Undefined)
    ELSE getCommentForStack(
             Undefined, quietUnit.stageName, quietUnit.stackName,
             stageComments[quietUnit.stageName]
                 .stackComments[quietUnit.stackName])

\* if (totalChanges === 0): no comment is posted
quietOmits(totalChanges) == totalChanges = 0

\* what commentStage / commentStacks asks of the store after findPrevious:
\* nothing, deleteComment, updateComment or createComment
quietOp(totalChanges, prev) ==
    IF quietOmits(totalChanges)
    THEN (IF prev # NoComment THEN "deleteComment" ELSE "none")
    ELSE publishOp(prev)

\* the store after the call is accepted
quietStored(op, prev, hash, content) ==
    /\ store' = CASE op = "deleteComment" -> deleteComment(store, prev)
                  [] op = "updateComment" ->
                         updateComment(store, prev, hash, content)
                  [] op = "createComment" ->
                         createComment(store, nextId, hash, content)
                  [] OTHER -> store
    /\ nextId' = IF op = "createComment" THEN nextId + 1 ELSE nextId
    /\ IF op = "none"
       THEN calls' = calls
       ELSE called(op, hash, prev, "ok")

\* the errors the store may refuse the call with
quietRefusals(op, content) ==
    CASE op = "none" -> {}
      [] op = "deleteComment" -> {"Validation Error"}
      [] OTHER -> storeAnswers(content) \ {"ok"}

\* commentStage: findPrevious resolves, for a stage comment that fits
QuietStageFindPrevious ==
    /\ pc = "quietStage"
    /\ ~quietOverflows(currentStage)
    /\ previous' = findPrevious(store, stageComments[currentStage.name].hash)
    /\ called("findPrevious", stageComments[currentStage.name].hash,
              previous', "ok")
    /\ pc' = "quietPublishStage"
    /\ UNCHANGED <<allowedDestroyTypes, diffVars, failOnDestructiveChanges,
                   noFailOnDestructiveChanges, title, assembly, templateDiffs,
                   stageInfo, stageComments, unit, stage, stackTasks, store,
                   nextId, error, runs, lastRun, diffCalls>>

\* commentStage: findPrevious rejects
QuietStageFindPreviousFails ==
    /\ pc = "quietStage"
    /\ ~quietOverflows(currentStage)
    /\ called("findPrevious", stageComments[currentStage.name].hash,
              NoComment, "listComments failed")
    /\ rejected("listComments failed")
    /\ UNCHANGED <<allowedDestroyTypes, diffVars, failOnDestructiveChanges,
                   noFailOnDestructiveChanges, title, assembly, templateDiffs,
                   stageInfo, stageComments, unit, stage, previous, stackTasks,
                   store, nextId, runs, lastRun, diffCalls>>

\* commentStage: nothing to post, or the store accepts the call
QuietStagePublished ==
    /\ pc = "quietPublishStage"
    /\ LET op == quietOp(stageComments[currentStage.name].totalChanges,
                         previous)
       IN  /\ op \in {"none", "deleteComment"}
                \/ "ok" \in storeAnswers(quietContent)
           /\ quietStored(op, previous, quietHash, quietContent)
    /\ quietNextStage
    /\ UNCHANGED <<allowedDestroyTypes, diffVars, failOnDestructiveChanges,
                   noFailOnDestructiveChanges, title, assembly, templateDiffs,
                   stageInfo, stageComments, unit, previous, stackTasks, error,
                   runs, lastRun, diffCalls>>

\* commentStage: the store refuses the call
QuietStageRefused ==
    /\ pc = "quietPublishStage"
    /\ LET op == quietOp(stageComments[currentStage.name].totalChanges,
                         previous)
       IN  \E e \in quietRefusals(op, quietContent) :
              /\ called(op, quietHash, previous, e)
              /\ rejected(e)
    /\ UNCHANGED <<allowedDestroyTypes, diffVars, failOnDestructiveChanges,
                   noFailOnDestructiveChanges, title, assembly, templateDiffs,
                   stageInfo, stageComments, unit, stage, previous, stackTasks,
                   store, nextId, runs, lastRun, diffCalls>>

\* commentStages: the stage comment is too long, commentStacks is called
\* with the stage's totalChanges and starts over all stages' stacks
QuietOverflow ==
    /\ pc = "quietStage"
    /\ quietOverflows(currentStage)
    /\ unit' = 1
    /\ pc' = "quietStack"
    /\ UNCHANGED <<allowedDestroyTypes, diffVars, failOnDestructiveChanges,
                   noFailOnDestructiveChanges, title, assembly, templateDiffs,
                   stageInfo, stageComments, stage, previous, stackTasks,
                   store, nextId, error, logVars>>

\* stackComment.join('\n').length > MAX_COMMENT_LENGTH
quietStackTooLong == joinedLength(quietContent, 1) > MAX_COMMENT_LENGTH

\* commentStacks: the stack's comment is too long
QuietStackTooLong ==
    /\ pc = "quietStack"
    /\ quietStackTooLong
    /\ rejected("Comment for stack " \o quietUnit.stackName \o " is too long")
    /\ UNCHANGED <<allowedDestroyTypes, diffVars, failOnDestructiveChanges,
                   noFailOnDestructiveChanges, title, assembly, templateDiffs,
                   stageInfo, stageComments, unit, stage, previous, stackTasks,
                   store, nextId, logVars>>

\* commentStacks: findPrevious resolves
QuietStackFindPrevious ==
    /\ pc = "quietStack"
    /\ ~quietStackTooLong
    /\ previous' = findPrevious(store, quietHash)
    /\ called("findPrevious", quietHash, previous', "ok")
    /\ pc' = "quietPublishStack"
    /\ UNCHANGED <<allowedDestroyTypes, diffVars, failOnDestructiveChanges,
                   noFailOnDestructiveChanges, title, assembly, templateDiffs,
                   stageInfo, stageComments, unit, stage, stackTasks, store,
                   nextId, error, runs, lastRun, diffCalls>>

\* commentStacks: findPrevious rejects
QuietStackFindPreviousFails ==
    /\ pc = "quietStack"
    /\ ~quietStackTooLong
    /\ called("findPrevious", quietHash, NoComment, "listComments failed")
    /\ rejected("listComments failed")
    /\ UNCHANGED <<allowedDestroyTypes, diffVars, failOnDestructiveChanges,
                   noFailOnDestructiveChanges, title, assembly, templateDiffs,
                   stageInfo, stageComments, unit, stage, previous, stackTasks,
                   store, nextId, runs, lastRun, diffCalls>>

\* commentStacks: nothing to post, or the store accepts the call; after the
\* last stack commentStacks resolves and commentStages goes on
QuietStackPublished ==
    /\ pc = "quietPublishStack"
    /\ LET op == quietOp(stageComments[currentStage.name].totalChanges,
                         previous)
       IN  /\ op \in {"none", "deleteComment"}
                \/ "ok" \in storeAnswers(quietContent)
           /\ quietStored(op, previous, quietHash, quietContent)
    /\ unit' = unit + 1
    /\ IF unit = Len(units)
       THEN quietNextStage
       ELSE pc' = "quietStack" /\ stage' = stage
    /\ UNCHANGED <<allowedDestroyTypes, diffVars, failOnDestructiveChanges,
                   noFailOnDestructiveChanges, title, assembly, templateDiffs,
                   stageInfo, stageComments, previous, stackTasks, error, runs,
                   lastRun, diffCalls>>

\* commentStacks: the store refuses the call
QuietStackRefused ==
    /\ pc = "quietPublishStack"
    /\ LET op == quietOp(stageComments[currentStage.name].totalChanges,
                         previous)
       IN  \E e \in quietRefusals(op, quietContent) :
              /\ called(op, quietHash, previous, e)
              /\ rejected(e)
    /\ UNCHANGED <<allowedDestroyTypes, diffVars, failOnDestructiveChanges,
                   noFailOnDestructiveChanges, title, assembly, templateDiffs,
                   stageInfo, stageComments, unit, stage, previous, stackTasks,
                   store, nextId, runs, lastRun, diffCalls>>

QuietNext ==
    \/ QuietDiffStack
    \/ QuietDiffStackFails
    \/ QuietStageFindPrevious
    \/ QuietStageFindPreviousFails
    \/ QuietStagePublished
    \/ QuietStageRefused
    \/ QuietOverflow
    \/ QuietStackTooLong
    \/ QuietStackFindPrevious
    \/ QuietStackFindPreviousFails
    \/ QuietStackPublished
    \/ QuietStackRefused
    \/ Decide

SpecQuiet == QuietInit /\ [][QuietNext]_vars

-----------------------------------------------------------------------------
(* SpecRerun: the action run again on the same pull request *)

\* the first run: the pull request has no comment of the action yet
RerunInit ==
    /\ Init
    /\ allowedDestroyTypes = {}
    /\ noFailOnDestructiveChanges = {}
    /\ ~failOnDestructiveChanges
    /\ title # Undefined
    /\ store = <<>>

\* the workflow runs the action again (a new commit on the pull request):
\* a new process with the same inputs, on the comments the last run left
Rerun ==
    /\ pc \in {"done", "failed"}
    /\ runs < MaxRuns
    /\ runs' = runs + 1
    /\ lastRun' = [templateDiffs |-> templateDiffs, pc |-> pc]
    /\ diffCalls' = 0
    /\ templateDiffs' = <<>>
    /\ stageInfo' = <<>>
    /\ stageComments' = <<>>
    /\ pc' = "diffApp"
    /\ unit' = 1
    /\ stage' = 1
    /\ previous' = NoComment
    /\ stackTasks' = <<>>
    /\ error' = ""
    /\ UNCHANGED <<allowedDestroyTypes, diffVars, failOnDestructiveChanges,
                   noFailOnDestructiveChanges, title, assembly, store, nextId,
                   calls>>

RerunNext == Next \/ Rerun

SpecRerun == RerunInit /\ [][RerunNext]_vars

-----------------------------------------------------------------------------
(* Properties of the run, checked under Spec *)

\* processStages has run to completion
stagesProcessed == stageInfo # <<>> /\ unit > Len(units)

\* commentStages has run to completion
stagesCommented == stageInfo # <<>> /\ stage > Len(stageInfo)

\* the destructive changes evaluateDiff lists for a stack
destructiveOf(stackName) ==
    evaluateDiff(stackName, templateDiffs[stackName],
                 allowedDestroyTypes).destructiveChanges

\* the sum of the lengths of the destructiveChanges lists of a stage's stacks
RECURSIVE destructiveSum(_, _)
destructiveSum(stacks, i) ==
    IF i > Len(stacks)
    THEN 0
    ELSE Len(destructiveOf(stacks[i])) + destructiveSum(stacks, i + 1)

\* a stage's net destructive count
netCount(st) ==
    IF st.name \in noFailOnDestructiveChanges
    THEN 0
    ELSE destructiveSum(st.stacks, 1)

\* C1: once processStages has completed, hasDestructiveChanges is true
\* exactly when some stage has a net destructive count above zero, the net
\* count being the sum of the lengths of its stacks' destructiveChanges lists
\* for a stage outside the ignore list and zero for a stage in it.
C1_HasDestructiveIffNetCount ==
    stagesProcessed =>
        (hasDestructiveChanges(stageComments)
            <=> \E st \in Range(stageInfo) : netCount(st) > 0)

\* C1 witness: processStages has completed over two stages, one ignored with
\* destructive changes among its stacks and one counted with destructive
\* changes, and hasDestructiveChanges is true.
C1_Witness ==
    /\ stagesProcessed
    /\ hasDestructiveChanges(stageComments)
    /\ \E st \in Range(stageInfo) :
          /\ st.name \in noFailOnDestructiveChanges
          /\ destructiveSum(st.stacks, 1) > 0
    /\ \E st \in Range(stageInfo) : netCount(st) > 0

\* C2 as stated: a finished run has failed with the destructive-changes error
\* exactly when hasDestructiveChanges and failOnDestructiveChanges are both
\* true.
C2_FailsIffDestructiveAndFail ==
    pc \in {"done", "failed"} =>
        (error = DestructiveError
            <=> (/\ stageInfo # <<>>
                 /\ hasDestructiveChanges(stageComments)
                 /\ failOnDestructiveChanges))

\* C2 amended: a run whose processStages and commentStages both completed
\* fails with the destructive-changes error exactly when hasDestructiveChanges
\* and failOnDestructiveChanges are both true; no run fails with that error
\* when failOnDestructiveChanges is false or hasDestructiveChanges is false.
C2_FailsIffDestructiveAndFailOnceCommented ==
    /\ (pc \in {"done", "failed"} /\ stagesCommented) =>
          (error = DestructiveError
              <=> (hasDestructiveChanges(stageComments)
                   /\ failOnDestructiveChanges))
    /\ error = DestructiveError =>
          /\ failOnDestructiveChanges
          /\ stagesCommented
          /\ hasDestructiveChanges(stageComments)

\* C2 witness: the run has commented every stage and failed with the
\* destructive-changes error.
C2_Witness ==
    /\ pc = "failed"
    /\ stagesCommented
    /\ error = DestructiveError
    /\ failOnDestructiveChanges

\* the stack's comment has been rendered by processStages
rendered(st, s) == stageComments[st.name].stackComments[s] # <<>>

\* the stack's comment has the warning header and a line for every
\* destructive change of the stack
warnsOfAll(st, s) ==
    LET comment == stageComments[st.name].stackComments[s]
    IN  destructiveOf(s) # <<>> =>
            /\ WarningHeader \in Range(comment)
            /\ \A d \in Range(destructiveOf(s)) :
                  destructiveLine(d) \in Range(comment)

\* C3: a stage named in the ignore list keeps a destructive count of 0
\* whatever the diffs of its stacks are, and the comment rendered for each of
\* its stacks still has the warning block with every destructive change of
\* that stack.
C3_IgnoredStageStillWarns ==
    \A i \in DOMAIN stageInfo :
        stageInfo[i].name \in noFailOnDestructiveChanges =>
            /\ stageComments[stageInfo[i].name].destructiveChanges = 0
            /\ \A s \in Range(stageInfo[i].stacks) :
                  rendered(stageInfo[i], s) => warnsOfAll(stageInfo[i], s)

\* C3 witness: every stack is processed, an ignored stage has a stack with
\* two destructive changes, its count is 0 and the stack's comment has the
\* warning header.
C3_Witness ==
    /\ stagesProcessed
    /\ \E st \in Range(stageInfo) :
          /\ st.name \in noFailOnDestructiveChanges
          /\ stageComments[st.name].destructiveChanges = 0
          /\ \E s \in Range(st.stacks) :
                /\ Len(destructiveOf(s)) = 2
                /\ rendered(st, s)
                /\ WarningHeader \in Range(stageComments[st.name].stackComments[s])

-----------------------------------------------------------------------------
(* Properties of commenting, checked under Spec *)

PublishOps == {"createComment", "updateComment"}

\* the positions in the log of the calls that create or update a comment
publishCalls == {i \in DOMAIN calls : calls[i].op \in PublishOps}

\* the positions in the log of the findPrevious calls
findCalls == {i \in DOMAIN calls : calls[i].op = "findPrevious"}

\* the comments of the store that carry the hash's marker
carrying(hash) == {i \in DOMAIN store : includesHash(store[i].body, hash)}

\* the last findPrevious call before position i, of the same run and hash
lookupBefore(i) ==
    {j \in findCalls :
        /\ j < i
        /\ calls[j].run = calls[i].run
        /\ calls[j].hash = calls[i].hash}

-----------------------------------------------------------------------------
(* Properties of repeated runs, checked under SpecRerun *)

\* the hashes the store has been called with
calledHashes == {calls[i].hash : i \in DOMAIN calls}

\* how many calls of the method the run made for the hash, with an answer
\* among the given ones
callCount(r, op, hash, answers) ==
    Cardinality({i \in DOMAIN calls :
                    /\ calls[i].run = r
                    /\ calls[i].op = op
                    /\ calls[i].hash = hash
                    /\ calls[i].answer \in answers})

\* the second of two runs that both completed, on the same diffs
ranTwiceUnchanged ==
    /\ runs = 2
    /\ pc = "done"
    /\ lastRun.pc = "done"
    /\ lastRun.templateDiffs = templateDiffs

-----------------------------------------------------------------------------
(* Properties of the deleting revision, checked under SpecQuiet *)

\* commentStages has resolved
quietCommented == pc \in {"decide", "done"} \/ error = DestructiveError

\* how many resources of the stack are created, updated or removed
changeCount(stackName) ==
    LET ch == evaluateDiff(stackName, templateDiffs[stackName],
                           allowedDestroyTypes)
    IN  ch.createdResources + ch.updatedResources + ch.removedResources

RECURSIVE changeSum(_, _)
changeSum(stacks, i) ==
    IF i > Len(stacks)
    THEN 0
    ELSE changeCount(stacks[i]) + changeSum(stacks, i + 1)

\* the calls made for the hash
callsFor(hash) == {i \in DOMAIN calls : calls[i].hash = hash}

\* a comment identity that was looked up and has no change of its own is
\* sent no createComment or updateComment, and is sent deleteComment once
\* if a previous comment was found and never otherwise
quietIdentity(hash) ==
    \A j \in callsFor(hash) :
        calls[j].op = "findPrevious" =>
            /\ \A i \in callsFor(hash) : calls[i].op \notin PublishOps
            /\ Cardinality({i \in callsFor(hash) :
                               calls[i].op = "deleteComment"})
                 = IF calls[j].id # NoComment THEN 1 ELSE 0

\* C13: once commentStages has resolved, every comment identity that was
\* looked up, of a stage or of a stack in the per-stack fallback, whose own
\* resources have no creation, update or removal has had deleteComment
\* called exactly once if a previous comment was found and not otherwise,
\* and neither createComment nor updateComment.
C13_QuietIdentityDeletedNotPosted ==
    quietCommented =>
        /\ \A st \in Range(stageInfo) :
              changeSum(st.stacks, 1) = 0
                  => quietIdentity(stageComments[st.name].hash)
        /\ \A u \in Range(units) :
              changeCount(u.stackName) = 0
                  => quietIdentity(quietStackHash(u.stageName, u.stackName))

\* C14: once commentStages has resolved, a stage in which a resource is
\* created, updated or removed has had no deleteComment call for its comment
\* or for its stacks' comments, and, when its comment fits, has had its
\* comment created or updated.
C14_ChangedStageIsPosted ==
    quietCommented =>
        \A st \in Range(stageInfo) :
            changeSum(st.stacks, 1) > 0 =>
                /\ \A i \in DOMAIN calls :
                      calls[i].op = "deleteComment" =>
                          /\ calls[i].hash # stageComments[st.name].hash
                          /\ \A s \in Range(st.stacks) :
                                calls[i].hash # quietStackHash(st.name, s)
                /\ ~quietOverflows(st) =>
                      \E i \in callsFor(stageComments[st.name].hash) :
                          /\ calls[i].op \in PublishOps
                          /\ calls[i].answer = "ok"

-----------------------------------------------------------------------------
(* Properties of the per-stack fallback, checked under Spec *)

\* the stage's comment was refused by the store as too long
refusedTooLong(st) ==
    \E i \in callsFor(stageComments[st.name].hash) :
        calls[i].op \in PublishOps /\ calls[i].answer = "Body is too long"

\* commentStacks has settled for the i-th stage
fallbackSettled(i) ==
    /\ stageInfo # <<>>
    /\ refusedTooLong(stageInfo[i])
    /\ Len(stageInfo[i].stacks) > 1
    /\ i < stage \/ (i = stage /\ stackTasks = <<>>)

\* the calls of the given methods made for the hash
opCalls(hash, ops) == {i \in callsFor(hash) : calls[i].op \in ops}

\* one findPrevious per stack of the stage and one create-or-update for it
perStackCalls(st, s) ==
    LET h == stackHash(title, st.name, s)
    IN  /\ Cardinality(opCalls(h, {"findPrevious"})) = 1
        /\ Cardinality(opCalls(h, PublishOps)) = 1

stackHashes(st) == {stackHash(title, st.name, s) : s \in Range(st.stacks)}

\* C16: every call of the store is made for the hash of a stage or for the
\* hash of a stack of a stage whose own comment was refused as too long; a
\* stage that commentStages has passed and whose comment was not refused as
\* too long has had exactly one createComment or updateComment call, which
\* was accepted, and no call at all for any of its stacks.
C16_FittingStageGetsOneComment ==
    stageInfo # <<>> =>
        /\ \A k \in DOMAIN calls :
              \/ \E st \in Range(stageInfo) :
                    calls[k].hash = stageComments[st.name].hash
              \/ \E st \in Range(stageInfo) :
                    /\ refusedTooLong(st)
                    /\ calls[k].hash \in stackHashes(st)
        /\ \A i \in DOMAIN stageInfo :
              (i < stage /\ ~refusedTooLong(stageInfo[i])) =>
                  /\ Cardinality(opCalls(stageComments[stageInfo[i].name].hash,
                                         PublishOps)) = 1
                  /\ \A j \in opCalls(stageComments[stageInfo[i].name].hash,
                                      PublishOps) : calls[j].answer = "ok"
                  /\ \A h \in stackHashes(stageInfo[i]) : callsFor(h) = {}

\* C16 witness: commentStages has resolved; one stage was refused as too
\* long and its stacks were commented one by one, another stage was
\* published with one accepted call and none of its stacks was called for.
C16_Witness ==
    /\ stagesCommented
    /\ \E i \in DOMAIN stageInfo :
          /\ fallbackSettled(i)
          /\ \A h \in stackHashes(stageInfo[i]) :
                \E j \in opCalls(h, PublishOps) : calls[j].answer = "ok"
    /\ \E i \in DOMAIN stageInfo :
          /\ ~refusedTooLong(stageInfo[i])
          /\ \E j \in opCalls(stageComments[stageInfo[i].name].hash,
                              PublishOps) : calls[j].answer = "ok"
          /\ \A h \in stackHashes(stageInfo[i]) : callsFor(h) = {}

\* the error of commentStacks: its message begins with this text
AggregatePrefix == "Error commenting stacks: "

aggregated(e) ==
    /\ Len(e) > Len(AggregatePrefix)
    /\ SubSeq(e, 1, Len(AggregatePrefix)) = AggregatePrefix

\* C17: while commentStacks runs, a commentStack promise exists for every
\* stack of the stage, whatever happened to the others; when commentStacks
\* returns or throws, every one of them has made its findPrevious call and is
\* fulfilled or rejected, and commentStacks throws, the one error
\* 'Error commenting stacks: ...', exactly when at least one is rejected.
C17_AllSettledThenAggregate ==
    [][/\ pc' = "commentStacks" =>
              DOMAIN stackTasks' = Range(stageInfo[stage'].stacks)
       /\ (pc = "commentStacks" /\ pc' # "commentStacks") =>
              /\ \A s \in Range(currentStage.stacks) :
                    /\ stackTasks[s].state \in {"fulfilled", "rejected"}
                    /\ opCalls(stackHash(title, currentStage.name, s),
                               {"findPrevious"}) # {}
              /\ (pc' = "failed" /\ aggregated(error'))
                    <=> (\E s \in Range(currentStage.stacks) :
                            stackTasks[s].state = "rejected")
              /\ (pc' # "failed")
                    <=> (\A s \in Range(currentStage.stacks) :
                            stackTasks[s].state = "fulfilled")]_vars

\* C17 witness: commentStacks has thrown the aggregated error, and a stack of
\* the stage was published after the call of another stack had been refused
C17_Witness ==
    /\ pc = "failed"
    /\ aggregated(error)
    /\ \E i, j \in DOMAIN calls :
          /\ i < j
          /\ calls[i].hash \in stackHashes(currentStage)
          /\ calls[i].answer # "ok"
          /\ calls[j].hash \in stackHashes(currentStage)
          /\ calls[j].op \in PublishOps
          /\ calls[j].answer = "ok"

\* the message names the stack as the one whose comment is too long
namesTooLong(message, s) ==
    /\ Len(message) > Len("Comment for stack " \o s \o " is too long")
    /\ SubSeq(message, 1, Len("Comment for stack " \o s \o " is too long"))
          = "Comment for stack " \o s \o " is too long"

\* the step issues a createComment or updateComment call for the stack and
\* the store refuses it
refusedStackCall(s) ==
    /\ pc = "commentStacks"
    /\ Len(calls') = Len(calls) + 1
    /\ calls'[Len(calls')].op \in PublishOps
    /\ calls'[Len(calls')].hash = stackHash(title, currentStage.name, s)
    /\ calls'[Len(calls')].answer # "ok"

\* C18: when the store refuses the createComment or updateComment call of a
\* stack, the promise of that stack is rejected: for 'Body is too long' with
\* a new error 'Comment for stack <stackName> is too long...' that names that
\* stack, for any other answer with the error of the store itself; it is the
\* only createComment or updateComment call ever made for the stack.
C18_StackRefusalReported ==
    [][pc = "commentStacks" =>
       \A s \in Range(currentStage.stacks) :
          refusedStackCall(s) =>
              /\ opCalls(stackHash(title, currentStage.name, s),
                         PublishOps) = {}
              /\ stackTasks'[s].state = "rejected"
              /\ IF calls'[Len(calls')].answer = "Body is too long"
                 THEN /\ stackTasks'[s].reason.name = "Error"
                      /\ namesTooLong(stackTasks'[s].reason.message, s)
                      /\ \A o \in Range(currentStage.stacks) \ {s} :
                            ~namesTooLong(stackTasks'[s].reason.message, o)
                 ELSE stackTasks'[s].reason =
                          [name |-> "HttpError",
                           message |-> calls'[Len(calls')].answer]]_vars

\* C18 witness: one stack of the stage was refused as too long and is
\* reported by name, another was refused for another reason and is reported
\* with the error of the store
C18_Witness ==
    /\ pc = "commentStacks"
    /\ \E s, o \in DOMAIN stackTasks :
          /\ stackTasks[s].state = "rejected"
          /\ namesTooLong(stackTasks[s].reason.message, s)
          /\ \E k \in opCalls(stackHash(title, currentStage.name, s),
                              PublishOps) :
                calls[k].answer = "Body is too long"
          /\ stackTasks[o].state = "rejected"
          /\ stackTasks[o].reason.message = "Validation Error"
          /\ \E k \in opCalls(stackHash(title, currentStage.name, o),
                              PublishOps) :
                calls[k].answer = "Validation Error"

\* the createComment or updateComment calls for the comment of the stage
\* that the store refused for another reason than the length of the body
refusedOtherwise(st) ==
    {k \in opCalls(stageComments[st.name].hash, PublishOps) :
        calls[k].answer \notin {"ok", "Body is too long"}}

\* C19: when the store has refused the createComment or updateComment call
\* for the comment of a stage for another reason than the length of the
\* body, commentStages has rejected with that very error, that call is the
\* last call made, and no findPrevious, createComment or updateComment call
\* was made for any stack of the stage.
C19_OtherStageErrorPropagates ==
    \A st \in Range(stageInfo) :
        \A k \in refusedOtherwise(st) :
            /\ pc = "failed"
            /\ error = calls[k].answer
            /\ k = Len(calls)
            /\ \A h \in stackHashes(st) : callsFor(h) = {}

\* C19 witness: the comment of a stage of several stacks was refused with a
\* validation error
C19_Witness ==
    \E st \in Range(stageInfo) :
        /\ Len(st.stacks) > 1
        /\ refusedOtherwise(st) # {}
        /\ error = "Validation Error"

-----------------------------------------------------------------------------
(* Properties of the hash of a stage, checked under SpecRerun *)

\* the stages a run may find: those of every assembly
knownStages == UNION {Range(processAssembly(a)) : a \in Assemblies}

\* the hashes of the comments of the stacks of every stage of this run
allStackHashes == UNION {stackHashes(st) : st \in Range(stageInfo)}

\* C20: the hash of the comment of a stage does not depend on the diffs: a
\* hash an earlier run called the store with, other than the hash of a
\* stack, is the hash of a stage of this run, whatever the diffs of the two
\* runs; and it differs from the hash of any stage of the same name with
\* another title or another set of stacks.
C20_StageHashOfNameTitleStacks ==
    stageInfo # <<>> =>
        /\ \A k \in DOMAIN calls :
              (calls[k].run < runs /\ calls[k].hash \notin allStackHashes) =>
                  \E st \in Range(stageInfo) :
                      calls[k].hash = stageComments[st.name].hash
        /\ \A st \in Range(stageInfo), other \in knownStages, t \in Titles :
              (/\ other.name = st.name
               /\ \/ Range(other.stacks) # Range(st.stacks)
                  \/ t # title) =>
                  stageComments[st.name].hash # stageHash(other, t)

\* C20 witness: the second run has other diffs than the first, and both
\* called the store with the same hash of a stage
C20_Witness ==
    /\ runs = 2
    /\ stageInfo # <<>>
    /\ lastRun.templateDiffs # templateDiffs
    /\ \E st \in Range(stageInfo) :
          \E i, j \in opCalls(stageComments[st.name].hash, PublishOps) :
              calls[i].run = 1 /\ calls[j].run = 2

-----------------------------------------------------------------------------
(* Properties of the stages of the run, checked under Spec *)

\* the stages of the run that hold the stack
stagesHolding(s) ==
    {i \in DOMAIN stageInfo : s \in Range(stageInfo[i].stacks)}

\* C21: once the assembly is read, every stack of the assembly outside a
\* stage is held by exactly one stage of the run, named
\* defaultStageDisplayName, whether or not the assembly has stages; the
\* stages of the assembly are kept as they are, and no stage of that name is
\* added when the assembly has no stack outside a stage.
C21_TopLevelStacksInDefaultStage ==
    stageInfo # <<>> =>
        /\ \A s \in Range(assembly.stacks) :
              /\ Cardinality(stagesHolding(s)) = 1
              /\ \A i \in stagesHolding(s) :
                    stageInfo[i].name = DefaultStageDisplayName
        /\ \A i \in DOMAIN assembly.stages : stageInfo[i] = assembly.stages[i]
        /\ Len(assembly.stacks) = 0 =>
              /\ stageInfo = assembly.stages
              /\ \A i \in DOMAIN stageInfo :
                    stageInfo[i].name # DefaultStageDisplayName

\* C21 witness: the assembly has a stage and a stack outside it, and the run
\* has a default stage that holds that stack next to the stage
C21_Witness ==
    /\ Len(assembly.stages) > 0
    /\ Len(assembly.stacks) > 0
    /\ Len(stageInfo) = Len(assembly.stages) + 1
    /\ stageInfo[Len(stageInfo)] =
          [name |-> DefaultStageDisplayName, stacks |-> assembly.stacks]

\* the errors of toolkit.diff and of diffStack
DiffErrors == {"toolkit.diff failed", "diffStack failed"}

\* C22: when toolkit.diff or the diffStack of a stack has thrown, the run has
\* failed with that error, the stack that threw and every stack after it
\* have no comment recorded, the store was never called and holds the
\* comments it held before the run; the run does not go on from there.
C22_DiffErrorAbortsRun ==
    /\ error \in DiffErrors =>
          /\ pc = "failed"
          /\ calls = <<>>
          /\ \A k \in DOMAIN units :
                k >= unit =>
                    stageComments[units[k].stageName]
                        .stackComments[units[k].stackName] = <<>>
          /\ store \in InitialStores(assembly, title)
    /\ pc = "failed" => ~ENABLED Next

\* C22 witness: the diffStack of the second of three stacks has thrown after
\* the first stack was recorded
C22_Witness ==
    /\ pc = "failed"
    /\ error = "diffStack failed"
    /\ unit = 2
    /\ Len(units) = 3
    /\ stageComments[units[1].stageName].stackComments[units[1].stackName]
          # <<>>
    /\ calls = <<>>

\* C23: a run calls toolkit.diff once, for all the stacks of all the stages
\* together: never more than once, and exactly once as soon as the run is
\* past the call; when the call has failed the run has failed with its
\* error, no stack was diffed or classified and no stage was read.
C23_OneDiffCall ==
    /\ diffCalls <= 1
    /\ pc # "diffApp" => diffCalls = 1
    /\ error = "toolkit.diff failed" =>
          /\ pc = "failed"
          /\ diffCalls = 1
          /\ templateDiffs = <<>>
          /\ stageInfo = <<>>
          /\ stageComments = <<>>
          /\ unit = 1

\* C23 witness: the run is done, with an assembly of two stages and three
\* stacks, after one call of toolkit.diff
C23_Witness ==
    /\ pc = "done"
    /\ Len(stageInfo) = 2
    /\ Len(units) = 3
    /\ diffCalls = 1
    /\ \A u \in Range(units) :
          stageComments[u.stageName].stackComments[u.stackName] # <<>>

\* the store has accepted a comment for the hash
accepted(hash) == \E i \in opCalls(hash, PublishOps) : calls[i].answer = "ok"

\* the comment of the stage, or the comment of each of its stacks, is posted
posted(st) ==
    \/ accepted(stageComments[st.name].hash)
    \/ \A h \in stackHashes(st) : accepted(h)

\* the stack has been diffed and classified
classifiedStack(u) ==
    stageComments[u.stageName].stackComments[u.stackName] # <<>>

\* C24: the phases of a run follow each other: a stack is classified only
\* after the call of toolkit.diff has resolved; the store is called only
\* after every stack of every stage is classified; the run is done, or has
\* failed for destructive changes, only after commentStages has gone through
\* every stage, so that the comments of every stage are posted by then.
C24_PhasesInOrder ==
    /\ (stageComments # <<>> /\ \E u \in Range(units) : classifiedStack(u)) =>
          (diffCalls = 1 /\ templateDiffs # <<>>)
    /\ calls # <<>> =>
          (stagesProcessed /\ \A u \in Range(units) : classifiedStack(u))
    /\ (pc = "done" \/ error = DestructiveError) =>
          /\ stagesCommented
          /\ stackTasks = <<>>
          /\ \A st \in Range(stageInfo) : posted(st)

\* C24 witness: the run has failed for destructive changes after the
\* comments of its two stages were posted
C24_Witness ==
    /\ pc = "failed"
    /\ error = DestructiveError
    /\ Len(stageInfo) = 2
    /\ \A st \in Range(stageInfo) : posted(st)

------------------------------------------------------------------------

\* the line is the warning of a stage: it ends with ' Destructive Changes'
\* (the warning of a stack ends with ':bangbang:')
isStageWarning(line) ==
    /\ Len(line) > Len(" Destructive Changes")
    /\ SubSeq(line, Len(line) - Len(" Destructive Changes") + 1, Len(line))
          = " Destructive Changes"

\* the warnings of a stage among the lines
stageWarnings(lines) == {i \in DOMAIN lines : isStageWarning(lines[i])}

\* C26: the comment rendered for a stage has the warning of the stage
\* exactly when the net destructive count of the stage is above zero, it has
\* it once, and the warning shows that count; the comment of a stage named
\* in the ignore list has no such warning.
C26_StageWarningIffCount ==
    stagesProcessed =>
        \A st \in Range(stageInfo) :
            LET lines == getCommentForStage(stageComments, st, title)
            IN  /\ stageWarnings(lines) # {} <=> netCount(st) > 0
                /\ Cardinality(stageWarnings(lines)) <= 1
                /\ \A i \in stageWarnings(lines) :
                      lines[i] = "> [!WARNING]\n> " \o ToString(netCount(st))
                                 \o " Destructive Changes"
                /\ st.name \in noFailOnDestructiveChanges =>
                      stageWarnings(lines) = {}

\* C26 witness: the comment of a stage with one destructive change is on the
\* pull request with its warning, and an ignored stage whose stacks have
\* destructive changes is rendered without one
C26_Witness ==
    /\ stagesCommented
    /\ \E st \in Range(stageInfo), i \in DOMAIN store :
          /\ netCount(st) = 1
          /\ includesHash(store[i].body, stageComments[st.name].hash)
          /\ "> [!WARNING]\n> 1 Destructive Changes" \in Range(store[i].body)
    /\ \E st \in Range(stageInfo) :
          /\ st.name \in noFailOnDestructiveChanges
          /\ destructiveSum(st.stacks, 1) > 0
          /\ stageWarnings(getCommentForStage(stageComments, st, title)) = {}

-----------------------------------------------------------------------------
(* Properties of Comments, checked under Spec *)

\* the step is a findPrevious call that the store answers
lookedUp ==
    /\ Len(calls') = Len(calls) + 1
    /\ calls'[Len(calls')].op = "findPrevious"
    /\ calls'[Len(calls')].answer = "ok"

wrote ==
    /\ Len(calls') = Len(calls) + 1
    /\ calls'[Len(calls')].op \in PublishOps
    /\ calls'[Len(calls')].answer = "ok"

\* the content the run renders for the hash: the comment of the stage, or
\* the comment of one of its stacks
contentFor(hash) ==
    IF hash = stageComments[currentStage.name].hash
    THEN getCommentForStage(stageComments, currentStage, title)
    ELSE LET s == CHOOSE x \in Range(currentStage.stacks) :
                     stackHash(title, currentStage.name, x) = hash
         IN  getCommentForStack(title, currentStage.name, s,
                                stageComments[currentStage.name]
                                    .stackComments[s])

\* the comment the accepted call wrote: the one with the id it was given,
\* or the new last comment of the list
written ==
    IF calls'[Len(calls')].op = "updateComment"
    THEN CHOOSE i \in DOMAIN store' : store'[i].id = calls'[Len(calls')].id
    ELSE Len(store')

\* C28: the body an accepted createComment or updateComment call writes for
\* a hash is the line '<!-- cdk diff action with hash <hash> -->', then the
\* lines of the content, then an empty line and the footer; this holds for
\* updateComment as for createComment, and a findPrevious for the hash then
\* returns the id of the comment written.
C28_BodyIsMarkerContentFooter ==
    [][wrote =>
         LET hash == calls'[Len(calls')].hash
             body == store'[written].body
         IN  /\ Len(body) = Len(contentFor(hash)) + 3
             /\ body[1] = "<!-- cdk diff action with hash " \o hash \o " -->"
             /\ SubSeq(body, 2, Len(body) - 2) = contentFor(hash)
             /\ body[Len(body) - 1] = ""
             /\ body[Len(body)] = Footer
             /\ findPrevious(store', hash) = store'[written].id]_vars

\* C28 witness: a comment of an earlier run was updated, its body now begins
\* with the marker of its hash followed by the title of this run, and
\* findPrevious returns its id
C28_Witness ==
    \E k \in DOMAIN calls, i \in DOMAIN store :
        /\ calls[k].op = "updateComment"
        /\ calls[k].answer = "ok"
        /\ store[i].id = calls[k].id
        /\ store[i].body[1] = marker(calls[k].hash)
        /\ title # Undefined
        /\ store[i].body[2] = "## " \o title
        /\ findPrevious(store, calls[k].hash) = store[i].id

-----------------------------------------------------------------------------
(* Properties of termination, checked under SpecLive *)

\* the run has ended: run() has returned or has rejected
ended == pc \in {"done", "failed"}

\* every commentStack promise of commentStacks is fulfilled or rejected
allSettled ==
    /\ pc = "commentStacks"
    /\ \A s \in DOMAIN stackTasks :
          stackTasks[s].state \in {"fulfilled", "rejected"}

\* C29: every run ends, with run() returning or rejecting; the store is
\* called at most twice for each stage and each stack; and once every
\* commentStack promise is settled, commentStacks returns or throws.
C29_RunEnds ==
    /\ <>ended
    /\ [](Len(calls) <= 2 * (Len(stageInfo) + Len(units)))
    /\ (allSettled ~> pc # "commentStacks")

\* C29 witness: the run is done after commentStacks has settled for a stage
C29_Witness ==
    /\ pc = "done"
    /\ \E i \in DOMAIN stageInfo : fallbackSettled(i)

-----------------------------------------------------------------------------
(* Properties of the concurrent commentStack promises, checked under Spec *)

\* the hashes of the comments of the stages of the run
stageHashes == {stageComments[st.name].hash : st \in Range(stageInfo)}

\* the content the run renders for the hash of a stage or of a stack
renderedFor(hash) ==
    IF hash \in stageHashes
    THEN LET st == CHOOSE x \in Range(stageInfo) :
                       stageComments[x.name].hash = hash
         IN  getCommentForStage(stageComments, st, title)
    ELSE LET st == CHOOSE x \in Range(stageInfo) : hash \in stackHashes(x)
             s == CHOOSE x \in Range(st.stacks) :
                      stackHash(title, st.name, x) = hash
         IN  getCommentForStack(title, st.name, s,
                                stageComments[st.name].stackComments[s])

\* the hashes for which the store has accepted a comment in this run
acceptedHashes == {calls[k].hash : k \in {i \in publishCalls :
                                             calls[i].answer = "ok"}}

\* the bodies of the comments of the list
bodies(comments) == {comments[i].body : i \in DOMAIN comments}

\* the hashes the comments of the list carry
carried(comments) ==
    {h \in stageHashes \cup allStackHashes :
        \E i \in DOMAIN comments : includesHash(comments[i].body, h)}

\* the bodies on the pull request, from the comments before the run and the
\* hashes accepted since, in whatever order they were accepted
bodiesAfter(earlierStore) ==
    {IF \E h \in acceptedHashes : includesHash(earlierStore[i].body, h)
     THEN LET h == CHOOSE x \in acceptedHashes :
                       includesHash(earlierStore[i].body, x)
          IN  commentBody(h, renderedFor(h))
     ELSE earlierStore[i].body : i \in DOMAIN earlierStore}
    \cup {commentBody(h, renderedFor(h)) :
             h \in acceptedHashes \ carried(earlierStore)}

\* C30: the hashes of the stacks of a stage differ from each other and from
\* the hash of every stage; no two accepted calls of a run write the same
\* comment; and the comments on the pull request are those before the run
\* with the accepted comments written over or added, one comment for each
\* hash, whatever the order in which the commentStack promises ran.
C30_StackCommentsDisjoint ==
    stageInfo # <<>> =>
        /\ \A st \in Range(stageInfo) :
              /\ \A s1, s2 \in Range(st.stacks) :
                    s1 # s2 => stackHash(title, st.name, s1)
                               # stackHash(title, st.name, s2)
              /\ stackHashes(st) \cap stageHashes = {}
        /\ \A i, j \in publishCalls :
              (i # j /\ calls[i].answer = "ok" /\ calls[j].answer = "ok") =>
                  /\ calls[i].hash # calls[j].hash
                  /\ calls[i].id # NoComment => calls[i].id # calls[j].id
        /\ \E earlierStore \in InitialStores(assembly, title) :
              /\ bodies(store) = bodiesAfter(earlierStore)
              /\ Len(store) = Len(earlierStore)
                    + Cardinality(acceptedHashes \ carried(earlierStore))

\* C30 witness: commentStacks has settled for a stage of two stacks whose
\* comments were both accepted, the second stack's before the first's
C30_Witness ==
    \E i \in DOMAIN stageInfo :
        /\ fallbackSettled(i)
        /\ Len(stageInfo[i].stacks) = 2
        /\ \E a, b \in publishCalls :
              /\ a < b
              /\ calls[a].answer = "ok"
              /\ calls[b].answer = "ok"
              /\ calls[a].hash = stackHash(title, stageInfo[i].name,
                                           stageInfo[i].stacks[2])
              /\ calls[b].hash = stackHash(title, stageInfo[i].name,
                                           stageInfo[i].stacks[1])

-----------------------------------------------------------------------------
(* Properties of the stages that commentStages gives up on, checked under
   Spec *)

\* C33: when the store has refused the comment of a stage of exactly one
\* stack as too long, commentStages has rejected with that error of the
\* store, the refused call is the last call made, and no call was made for
\* the stack; only the stacks of stages of more than one stack are ever
\* called for.
C33_OneStackStageNotSplit ==
    stageInfo # <<>> =>
        /\ \A st \in Range(stageInfo) :
              (Len(st.stacks) = 1 /\ refusedTooLong(st)) =>
                  /\ pc = "failed"
                  /\ error = "Body is too long"
                  /\ calls[Len(calls)].hash = stageComments[st.name].hash
                  /\ calls[Len(calls)].answer = "Body is too long"
                  /\ \A h \in stackHashes(st) : callsFor(h) = {}
        /\ \A st \in Range(stageInfo) :
              (\E h \in stackHashes(st) : callsFor(h) # {}) =>
                  Len(st.stacks) > 1

\* C33 witness: the comment of a stage of one stack was refused as too long
\* and the run has failed with that error
C33_Witness ==
    /\ pc = "failed"
    /\ error = "Body is too long"
    /\ \E st \in Range(stageInfo) :
          /\ Len(st.stacks) = 1
          /\ refusedTooLong(st)

\* the hashes the comments of a stage are published under
hashesOf(st) == {stageComments[st.name].hash} \cup stackHashes(st)

\* the calls made for the comments of the i-th stage
stageCalls(i) == {k \in DOMAIN calls : calls[k].hash \in hashesOf(stageInfo[i])}

\* a call whose failure commentStages does not catch: any failure but the
\* store refusing, as too long, the comment of a stage of several stacks
fatalCall(k) ==
    /\ calls[k].answer # "ok"
    /\ ~ \E st \in Range(stageInfo) :
            /\ calls[k].hash = stageComments[st.name].hash
            /\ calls[k].op \in PublishOps
            /\ calls[k].answer = "Body is too long"
            /\ Len(st.stacks) > 1

\* C34: the calls of commentStages come stage after stage in the order of
\* stageComments; after a call that fails fatally for a stage, no call is
\* made for any other stage, so none for a later one; and every comment the
\* store accepted is in the store as it was published.
C34_StagesInOrderUntilFailure ==
    stageInfo # <<>> =>
        /\ \A i, j \in DOMAIN stageInfo :
              i < j => \A k \in stageCalls(i), l \in stageCalls(j) : k < l
        /\ \A i \in DOMAIN stageInfo :
              \A k \in stageCalls(i) :
                  fatalCall(k) =>
                      /\ \A l \in DOMAIN calls : l > k => l \in stageCalls(i)
                      /\ \A j \in DOMAIN stageInfo :
                            j > i => stageCalls(j) = {}
                      /\ pc \in {"failed", "commentStacks"}
        /\ \A h \in acceptedHashes :
              \E c \in carrying(h) :
                  store[c].body = commentBody(h, renderedFor(h))

\* C34 witness: the comment of the first stage was accepted and is in the
\* store, a call for the second stage failed fatally, and a third stage was
\* never called for
C34_Witness ==
    /\ pc = "failed"
    /\ Len(stageInfo) > 2
    /\ \E k \in stageCalls(1) :
          /\ calls[k].op \in PublishOps
          /\ calls[k].answer = "ok"
          /\ carrying(calls[k].hash) # {}
    /\ \E k \in stageCalls(2) : fatalCall(k)
    /\ stageCalls(3) = {}

\* the comments of `comments` that carry the hash of the stage being commented
stageCommentsIn(comments) ==
    {i \in DOMAIN comments :
        includesHash(comments[i].body, stageComments[currentStage.name].hash)}

\* commentStages is in, or is entering, the catch that runs commentStacks
fallingBack ==
    /\ stageInfo # <<>>
    /\ stage \in DOMAIN stageInfo
    /\ \/ pc = "commentStacks"
       \/ pc = "publishStage" /\ pc' = "commentStacks"

\* C35: from the refused call for the stage on, through every step of
\* commentStacks, the comments of the store that carry the hash of the stage
\* are the same comments with the same bodies: none is updated, none is
\* removed, none is added.
C35_FallbackLeavesStageComment ==
    [][fallingBack =>
          /\ Len(store') >= Len(store)
          /\ stageCommentsIn(store') = stageCommentsIn(store)
          /\ \A i \in stageCommentsIn(store) : store'[i] = store[i]]_vars

\* C35 witness: the store still holds a comment of an earlier run for the
\* stage while the comments of all its stacks have been accepted in the
\* fallback
C35_Witness ==
    /\ pc = "commentStacks"
    /\ stageCommentsIn(store) # {}
    /\ \A i \in stageCommentsIn(store) :
          store[i].body # commentBody(stageComments[currentStage.name].hash,
                                      getCommentForStage(stageComments,
                                                         currentStage, title))
    /\ \A h \in stackHashes(currentStage) : accepted(h)

-----------------------------------------------------------------------------
(* Properties of the length test of the revisions that test the length
   themselves, checked under SpecQuiet *)

\* commentStage / commentStacks stands at its createComment or updateComment
\* call: the comment passed the length test and is about to be sent
quietSending ==
    /\ pc \in {"quietPublishStage", "quietPublishStack"}
    /\ quietOp(stageComments[currentStage.name].totalChanges, previous)
           \in PublishOps

\* the length of the body the store is sent: marker, content, empty line and
\* footer joined by newlines
quietBodyLength == joinedLength(commentBody(quietHash, quietContent), 1)

\* C36: whenever a comment is sent to createComment or updateComment, its
\* body (marker line, content lines, empty line and footer joined by newline)
\* is at most MAX_COMMENT_LENGTH characters long.
C36_BodyWithinLimit == quietSending => quietBodyLength <= MAX_COMMENT_LENGTH

-----------------------------------------------------------------------------
(* Properties of the destructive counts of stacks and stages, checked under
   Spec *)

\* the ChangeDetails evaluateDiff returns for a stack of the run
changesOf(stackName) ==
    evaluateDiff(stackName, templateDiffs[stackName], allowedDestroyTypes)

\* createdResources + updatedResources + removedResources of a stack
resourceCount(stackName) ==
    changesOf(stackName).createdResources
        + changesOf(stackName).updatedResources
        + changesOf(stackName).removedResources

\* C37: for every stack the number of destructive entries is at most
\* createdResources + updatedResources + removedResources, and once
\* processStages is through, the destructive count of every stage that is
\* not in noFailOnDestructiveChanges is the sum of the numbers of destructive
\* entries of its stacks.
C37_DestructiveCountsBounded ==
    stageInfo # <<>> =>
        /\ \A st \in Range(stageInfo) :
              \A s \in Range(st.stacks) :
                  Len(changesOf(s).destructiveChanges) <= resourceCount(s)
        /\ stagesProcessed =>
              \A st \in Range(stageInfo) :
                  st.name \notin noFailOnDestructiveChanges =>
                      stageComments[st.name].destructiveChanges
                          = destructiveSum(st.stacks, 1)

\* C37 witness: processStages is through and a stage that is not ignored has
\* two stacks with destructive entries, fewer than the resources counted for
\* one of them
C37_Witness ==
    /\ stagesProcessed
    /\ \E st \in Range(stageInfo) :
          /\ st.name \notin noFailOnDestructiveChanges
          /\ Len(st.stacks) > 1
          /\ \A s \in Range(st.stacks) :
                Len(changesOf(s).destructiveChanges) > 0
          /\ \E s \in Range(st.stacks) :
                Len(changesOf(s).destructiveChanges) < resourceCount(s)
          /\ stageComments[st.name].destructiveChanges > 1

-----
(* Properties of evaluateDiff, checked under SpecDiff.  They read the last    *)
(* callback invocation: `change` was handed to the callback, which took       *)
(* `before` to `changes`.                                                     *)

visited == index > 0

logicalId == logicalIdAt(index)

\* the destructive entries of `ch` recorded for the current resource
entriesFor(ch) ==
    SelectSeq(ch.destructiveChanges, LAMBDA d : d.logicalId = logicalId)

countsOf(ch) ==
    <<ch.createdResources, ch.updatedResources, ch.removedResources>>

countDelta ==
    <<changes.createdResources - before.createdResources,
      changes.updatedResources - before.updatedResources,
      changes.removedResources - before.removedResources>>

\* exactly one of created / updated / removed went up, by one
countedOnce == countDelta \in {<<1, 0, 0>>, <<0, 1, 0>>, <<0, 0, 1>>}

allowListed == resourceType(change) \in allowedDestroyTypes

recordedWith(impact) ==
    changes.destructiveChanges =
        Append(before.destructiveChanges,
               [impact |-> impact, logicalId |-> logicalId,
                stackName |-> UnitName])

nothingRecorded == changes.destructiveChanges = before.destructiveChanges

\* noise as the specification defines it: the metadata marker type, or a
\* Lambda function whose property updates are only Code and/or Metadata
Noise(c) ==
    \/ resourceType(c) = CdkMetadata
    \/ /\ resourceType(c) = LambdaFunction
       /\ c.propertyUpdates # {}
       /\ c.propertyUpdates \subseteq {"Code", "Metadata"}

NoChangesLine == <<"No Changes for stack: test-stack :white_check_mark:">>

\* C4 (as stated): a difference whose resource type is allow-listed never gets
\* a destructive entry, whatever its kind or impact, and is still counted in
\* exactly one of created / updated / removed.
C4_AllowListedStillCounted ==
    visited /\ allowListed =>
        /\ entriesFor(changes) = <<>>
        /\ nothingRecorded
        /\ countedOnce

\* C4 (amended): a difference whose resource type is allow-listed never gets a
\* destructive entry, whatever its kind or impact; unless evaluateDiff skips
\* it as noise, it is counted in exactly one of created / updated / removed.
C4_AllowListedNeverDestructive ==
    visited /\ allowListed =>
        /\ entriesFor(changes) = <<>>
        /\ nothingRecorded
        /\ IF skipped(change) THEN countDelta = <<0, 0, 0>> ELSE countedOnce

C4_Witness ==
    /\ visited /\ allowListed /\ ~skipped(change)
    /\ isRemoval(change) /\ change.changeImpact = "WILL_DESTROY"
    /\ nothingRecorded /\ countDelta = <<0, 0, 1>>

\* C5: a removal that is neither noise nor allow-listed gets exactly one
\* destructive entry, with impact WILL_DESTROY, whatever changeImpact the
\* diff engine reports for it.
C5_RemovalWillDestroy ==
    /\ visited /\ isRemoval(change) /\ ~allowListed
    /\ ~Noise(change) \/ ~skipped(change)
    => /\ recordedWith("WILL_DESTROY")
       /\ Len(entriesFor(changes)) = 1

C5_Witness ==
    /\ visited /\ isRemoval(change) /\ ~allowListed /\ ~Noise(change)
    /\ change.changeImpact = "NO_CHANGE"
    /\ recordedWith("WILL_DESTROY")

\* C6: a non-removal difference that is neither noise nor allow-listed gets a
\* destructive entry iff its changeImpact is MAY_REPLACE, WILL_ORPHAN,
\* WILL_DESTROY or WILL_REPLACE, and the entry carries that impact.
C6_ImpactDecides ==
    visited /\ ~isRemoval(change) /\ ~Noise(change) /\ ~allowListed =>
        IF change.changeImpact \in
             {"MAY_REPLACE", "WILL_ORPHAN", "WILL_DESTROY", "WILL_REPLACE"}
        THEN recordedWith(change.changeImpact)
        ELSE nothingRecorded

\* C7: a difference on a Lambda function is skipped entirely (no count, no
\* destructive entry) iff its property updates touch at most two properties,
\* each of them Code or Metadata; any other Lambda difference is counted.
C7_LambdaNoiseRule ==
    visited /\ resourceType(change) = LambdaFunction =>
        /\ (changes = before) <=> Noise(change)
        /\ ~Noise(change) => countedOnce

\* C8: a difference on a resource of type AWS::CDK::Metadata changes none of
\* the counts and records no destructive entry, whatever its kind and impact.
C8_MetadataIgnored ==
    visited /\ resourceType(change) = CdkMetadata => changes = before

C8_Witness ==
    /\ visited /\ resourceType(change) = CdkMetadata /\ ~allowListed
    /\ isRemoval(change) /\ change.changeImpact = "WILL_DESTROY"
    /\ changes = before

C10_NoResourceDifferences ==
    phase = "formatted" /\ index = 0 =>
        /\ changes = NoChanges
        /\ unitComment = NoChangesLine

\* C10 (amended): for a diff with zero resource differences evaluateDiff
\* returns zero counts and no destructive entry; when the diff has no
\* difference in any other section of the template either (diff.isEmpty),
\* the rendered comment is the single "No Changes ..." line.
C10_EmptyDiff ==
    phase = "formatted" /\ index = 0 =>
        /\ changes = NoChanges
        /\ otherCount = 0 => unitComment = NoChangesLine

C10_Witness ==
    /\ phase = "formatted" /\ index = 0 /\ otherCount = 0
    /\ unitComment = NoChangesLine

\* the line ends with a blank and the text
endsWith(line, text) ==
    /\ Len(line) > Len(text)
    /\ SubSeq(line, Len(line) - Len(text), Len(line)) = " " \o text

\* C25: the first line of the comment of a stack ends with ':x:' when the
\* stack has a destructive change or a removed resource; otherwise with
\* ':yellow_circle:' when it has an updated resource; otherwise with
\* ':sparkle:' when it has a created resource; otherwise with
\* ':white_check_mark:'.
C25_EmojiByPrecedence ==
    phase = "formatted" =>
        IF Len(changes.destructiveChanges) > 0 \/ changes.removedResources > 0
        THEN endsWith(unitComment[1], ":x:")
        ELSE IF changes.updatedResources > 0
             THEN endsWith(unitComment[1], ":yellow_circle:")
             ELSE IF changes.createdResources > 0
                  THEN endsWith(unitComment[1], ":sparkle:")
                  ELSE endsWith(unitComment[1], ":white_check_mark:")

\* C25 witness: a stack with an updated and a removed resource is headed
\* with ':x:'
C25_Witness ==
    /\ phase = "formatted"
    /\ changes.updatedResources > 0
    /\ changes.removedResources > 0
    /\ Len(changes.destructiveChanges) = 0
    /\ endsWith(unitComment[1], ":x:")

\* the place of the entry's resource in the iteration of the differences
placeOf(d) == CHOOSE i \in 1..index : d.logicalId = logicalIdAt(i)

\* C31: the destructiveChanges list has its entries in the order in which
\* forEachDifference visited their resources, with at most one entry for a
\* resource: every entry is for a resource visited, and an entry further
\* down the list is for a resource visited later; the visit of a resource
\* leaves the list as it was or adds one entry for that resource at its end.
C31_DestructiveInIterationOrder ==
    /\ \A i \in DOMAIN changes.destructiveChanges :
          \E k \in 1..index :
              changes.destructiveChanges[i].logicalId = logicalIdAt(k)
    /\ \A i, j \in DOMAIN changes.destructiveChanges :
          i < j => placeOf(changes.destructiveChanges[i])
                   < placeOf(changes.destructiveChanges[j])
    /\ visited =>
          \/ changes.destructiveChanges = before.destructiveChanges
          \/ /\ Len(changes.destructiveChanges)
                   = Len(before.destructiveChanges) + 1
             /\ SubSeq(changes.destructiveChanges, 1,
                       Len(before.destructiveChanges))
                   = before.destructiveChanges
             /\ changes.destructiveChanges[Len(changes.destructiveChanges)]
                   .logicalId = logicalId

\* C31 witness: two resources were visited and both are in the list, the
\* first visited first
C31_Witness ==
    /\ index = 2
    /\ Len(changes.destructiveChanges) = 2
    /\ changes.destructiveChanges[1].logicalId = logicalIdAt(1)
    /\ changes.destructiveChanges[2].logicalId = logicalIdAt(2)

\* the destructive entries the visit of the current resource added
addedEntries ==
    SubSeq(changes.destructiveChanges, Len(before.destructiveChanges) + 1,
           Len(changes.destructiveChanges))

\* C32: a difference whose resource type is undefined is evaluated like any
\* other: it is not skipped and not allow-listed, whatever the
\* allowedDestroyTypes are; it adds one to the count of its kind (update,
\* removal or addition) and to no other; a removal adds one entry with
\* impact WILL_DESTROY, another difference adds one entry with its
\* changeImpact when that is MAY_REPLACE, WILL_ORPHAN, WILL_DESTROY or
\* WILL_REPLACE and none otherwise.
C32_UndefinedTypeEvaluated ==
    (visited /\ resourceType(change) = Undefined) =>
        /\ countDelta = IF change.oldValue.defined /\ change.newValue.defined
                        THEN <<0, 1, 0>>
                        ELSE IF ~change.newValue.defined
                             THEN <<0, 0, 1>>
                             ELSE <<1, 0, 0>>
        /\ SubSeq(changes.destructiveChanges, 1,
                  Len(before.destructiveChanges)) = before.destructiveChanges
        /\ addedEntries =
              IF ~change.newValue.defined
              THEN <<[impact |-> "WILL_DESTROY", logicalId |-> logicalId,
                      stackName |-> UnitName]>>
              ELSE IF change.changeImpact \in {"MAY_REPLACE", "WILL_ORPHAN",
                                               "WILL_DESTROY", "WILL_REPLACE"}
                   THEN <<[impact |-> change.changeImpact,
                           logicalId |-> logicalId, stackName |-> UnitName]>>
                   ELSE <<>>

\* C32 witness: with resource types allowed to be destroyed, the removal of
\* a resource without a type was counted and recorded as WILL_DESTROY
C32_Witness ==
    /\ visited
    /\ allowedDestroyTypes # {}
    /\ change.oldValue.defined
    /\ change.oldValue.Type = Undefined
    /\ ~change.newValue.defined
    /\ changes.removedResources = before.removedResources + 1
    /\ Len(addedEntries) = 1
    /\ addedEntries[1].impact = "WILL_DESTROY"

====
